---- MODULE Spec2Model ----
(***************************************************************************)
(* Model of the graph-builder ingest pipeline                              *)
(* (ossrepo-backend/graph-builder/builder/build_engine.py).                *)
(*                                                                         *)
(* The graph store is one record variable g whose fields are the node and  *)
(* edge collections the Cypher statements of the mg_* helpers MERGE into.  *)
(* Every mg_* helper is an operator from graph to graph, and               *)
(* run_branch_ingest is a state machine over the commit walk: one action   *)
(* per commit-level step, with the exceptions the per-commit handler       *)
(* catches as explicit actions.                                            *)
(***************************************************************************)
EXTENDS Integers, Sequences, FiniteSets, TLC

(***************************************************************************)
(* Bounds of the exploration.                                              *)
(***************************************************************************)
MaxRuns == 2
MaxFailures == 1

(***************************************************************************)
(* Generic helpers.                                                        *)
(***************************************************************************)
NULL == "null"

Range(s) == {s[i] : i \in 1..Len(s)}

Upsert(f, k, v) == [x \in (DOMAIN f) \cup {k} |-> IF x = k THEN v ELSE f[x]]

EmptyFn == [x \in {} |-> NULL]

RECURSIVE SumSeq(_)
SumSeq(s) == IF s = <<>> THEN 0 ELSE Head(s) + SumSeq(Tail(s))

Max2(a, b) == IF a >= b THEN a ELSE b
Min2(a, b) == IF a <= b THEN a ELSE b

(***************************************************************************)
(* Paths.  A repo-relative path is a record: the directory components, and *)
(* the last component split into stem and suffix, which is what            *)
(* _file_ext, os.path.basename and Path.with_suffix look at.               *)
(***************************************************************************)
P(dir, stem, ext) == [dir |-> dir, stem |-> stem, ext |-> ext]

BaseName(p) == p.stem \o p.ext

RootDir == P(<<>>, "", "")

\* the absent path (Python None) as a value comparable with paths
NoPath == P(<<>>, "null", "")

Parent(p) ==
    IF p.dir = <<>> THEN RootDir
    ELSE P(SubSeq(p.dir, 1, Len(p.dir) - 1), p.dir[Len(p.dir)], "")

JoinFile(d, stem, ext) ==
    IF d = RootDir THEN P(<<>>, stem, ext)
    ELSE P(d.dir \o <<BaseName(d)>>, stem, ext)

Join(d, name) == JoinFile(d, name, "")

WithSuffix(p, ext) == [p EXCEPT !.ext = ext]

_file_ext(p) == p.ext

PackageJson == P(<<>>, "package", ".json")
SrcInit == P(<<"src">>, "__init__", ".py")
SrcA == P(<<"src">>, "a", ".py")
SrcB == P(<<"src">>, "b", ".py")
SrcPkgB == P(<<"src", "pkg">>, "b", ".py")
Readme == P(<<>>, "README", ".txt")
\* the path `git show --numstat` prints for the rename src/b.py -> src/pkg/b.py
NumstatRenameB == P(<<"src", "{b.py => pkg">>, "b", ".py}")

SPECIAL_CODE_FILES ==
    {"requirements.txt", "Pipfile", "Pipfile.lock", "poetry.lock",
     "package.json", "package-lock.json", "pnpm-lock.yaml", "yarn.lock",
     "requirements-dev.txt", "pyproject.toml", "setup.cfg", "setup.py"}

EXT_TO_LANG(ext) ==
    CASE ext = ".py" -> "python"
      [] ext \in {".js", ".jsx"} -> "javascript"
      [] ext \in {".ts", ".tsx"} -> "typescript"
      [] ext = ".rs" -> "rust"
      [] ext = ".go" -> "go"
      [] ext \in {".scala", ".sc"} -> "scala"
      [] ext = ".java" -> "java"
      [] ext \in {".cpp", ".h", ".hpp", ".cc", ".cxx", ".hxx", ".hh"} -> "cpp"
      [] ext \in {".md", ".markdown", ".mdx"} -> "markdown"
      [] OTHER -> NULL

_is_code_file(p) ==
    BaseName(p) \in SPECIAL_CODE_FILES \/ EXT_TO_LANG(_file_ext(p)) # NULL


(***************************************************************************)
(* The git object database the driver reads: two branches of one           *)
(* repository that share the root commit c1.                               *)
(*   main: c1 - c2 - c3          dev: c1 - d1                              *)
(* and a branch s1 of its own history A - B - C: A adds src/a.py, B        *)
(* modifies it and adds src/b.py, C renames src/b.py to src/pkg/b.py.      *)
(***************************************************************************)
RepoId == "o/r"
Branches == {"main", "dev"}
Shas == {"c1", "c2", "c3", "d1"}
ScenarioBranch == "s1"
ScenarioShas == {"A", "B", "C"}

\* `git rev-list --reverse <branch>`: every commit reachable, oldest first
History(branch) ==
    CASE branch = "main" -> <<"c1", "c2", "c3">>
      [] branch = "dev" -> <<"c1", "d1">>
      [] branch = ScenarioBranch -> <<"A", "B", "C">>

\* the commits reachable from sha (sha included)
Reach(sha) ==
    CASE sha = "c1" -> {"c1"}
      [] sha = "c2" -> {"c1", "c2"}
      [] sha = "c3" -> {"c1", "c2", "c3"}
      [] sha = "d1" -> {"c1", "d1"}
      [] sha = "A" -> {"A"}
      [] sha = "B" -> {"A", "B"}
      [] sha = "C" -> {"A", "B", "C"}

Hour == 3600
Day == 86400

CommittedAt(sha) ==
    CASE sha = "c1" -> 14 * Hour
      [] sha = "c2" -> 15 * Hour
      [] sha = "d1" -> Day + 3 * Hour
      [] sha = "c3" -> Day + 14 * Hour
      [] sha = "A" -> 10 * Hour
      [] sha = "B" -> 11 * Hour
      [] sha = "C" -> 12 * Hour

AuthorOf(sha) == IF sha = "d1" THEN "u2@x.org" ELSE "u1@x.org"

\* `git show -s --format=%H%n%at%n%an%n%ae%n%ct%n%s`
_git_commit_meta(sha) ==
    [sha |-> sha,
     authored_at |-> CommittedAt(sha),
     author_name |-> IF sha = "d1" THEN "u2" ELSE "u1",
     author_email |-> AuthorOf(sha),
     committed_at |-> CommittedAt(sha),
     subject |-> "msg " \o sha]

\* what each commit changes, in the path order `git show` prints
Changes(sha) ==
    CASE sha = "c1" ->
           <<[path |-> PackageJson, status |-> "A", old_path |-> NoPath, additions |-> 5, deletions |-> 0],
             [path |-> SrcInit, status |-> "A", old_path |-> NoPath, additions |-> 2, deletions |-> 0],
             [path |-> SrcA, status |-> "A", old_path |-> NoPath, additions |-> 4, deletions |-> 0],
             [path |-> SrcB, status |-> "A", old_path |-> NoPath, additions |-> 2, deletions |-> 0]>>
      [] sha = "c2" ->
           <<[path |-> Readme, status |-> "A", old_path |-> NoPath, additions |-> 1, deletions |-> 0],
             [path |-> SrcB, status |-> "M", old_path |-> NoPath, additions |-> 3, deletions |-> 2]>>
      [] sha = "c3" ->
           <<[path |-> PackageJson, status |-> "M", old_path |-> NoPath, additions |-> 1, deletions |-> 1],
             [path |-> SrcPkgB, status |-> "R", old_path |-> SrcB, additions |-> 0, deletions |-> 0]>>
      [] sha = "d1" ->
           <<[path |-> PackageJson, status |-> "M", old_path |-> NoPath, additions |-> 1, deletions |-> 1]>>
      [] sha = "A" ->
           <<[path |-> SrcA, status |-> "A", old_path |-> NoPath, additions |-> 10, deletions |-> 0]>>
      [] sha = "B" ->
           <<[path |-> SrcA, status |-> "M", old_path |-> NoPath, additions |-> 2, deletions |-> 1],
             [path |-> SrcB, status |-> "A", old_path |-> NoPath, additions |-> 20, deletions |-> 0]>>
      [] sha = "C" ->
           <<[path |-> SrcPkgB, status |-> "R", old_path |-> SrcB, additions |-> 0, deletions |-> 0]>>

\* `git show --name-status -M50% -C50%`: new path -> status, old path
_git_name_status(sha) ==
    [i \in 1..Len(Changes(sha)) |->
        [path |-> Changes(sha)[i].path,
         status |-> Changes(sha)[i].status,
         old_path |-> Changes(sha)[i].old_path]]

\* `git show --numstat`: a rename is printed as "dir/{old => new}"
NumstatPath(ch) ==
    IF ch.status = "R" /\ ch.path = SrcPkgB THEN NumstatRenameB ELSE ch.path

_git_numstat(sha) ==
    [i \in 1..Len(Changes(sha)) |->
        [path |-> NumstatPath(Changes(sha)[i]),
         additions |-> Changes(sha)[i].additions,
         deletions |-> Changes(sha)[i].deletions]]

\* the files of the tree of each commit (`git cat-file -e sha:path`)
TreeFiles(sha) ==
    CASE sha = "c1" -> {PackageJson, SrcInit, SrcA, SrcB}
      [] sha = "c2" -> {PackageJson, SrcInit, SrcA, SrcB, Readme}
      [] sha = "c3" -> {PackageJson, SrcInit, SrcA, SrcPkgB, Readme}
      [] sha = "d1" -> {PackageJson, SrcInit, SrcA, SrcB}
      [] sha = "A" -> {SrcA}
      [] sha = "B" -> {SrcA, SrcB}
      [] sha = "C" -> {SrcA, SrcPkgB}


\* _git_show_file: the blob of path at sha, NoBlob when `git show` fails
NoBlob == [sha |-> NULL, path |-> NoPath]

_git_show_file(sha, path) ==
    IF path \in TreeFiles(sha) THEN [sha |-> sha, path |-> path] ELSE NoBlob

(***************************************************************************)
(* What the extractors return on the blobs of this repository.             *)
(* A version string is kept as its sequence of characters; a module spec  *)
(* as its sequence of tokens.                                              *)
(***************************************************************************)
DigitChar(d) ==
    CASE d = 0 -> "0" [] d = 1 -> "1" [] d = 2 -> "2" [] d = 3 -> "3" [] d = 4 -> "4"
      [] d = 5 -> "5" [] d = 6 -> "6" [] d = 7 -> "7" [] d = 8 -> "8" [] d = 9 -> "9"

RECURSIVE Decimal(_)
Decimal(n) == IF n < 10 THEN <<DigitChar(n)>> ELSE Append(Decimal(n \div 10), DigitChar(n % 10))

RECURSIVE Dotted(_)
Dotted(nums) ==
    IF nums = <<>> THEN <<>>
    ELSE IF Len(nums) = 1 THEN Decimal(nums[1])
    ELSE Decimal(nums[1]) \o <<".">> \o Dotted(Tail(nums))

\* the text prefix followed by the dotted numbers, e.g. ^17.0.2
Version(prefix, nums) == prefix \o Dotted(nums)
NoVersion == <<>>

ReactVersion(sha) ==
    CASE sha = "c3" -> Version(<<"^">>, <<18, 1, 0>>)
      [] sha = "d1" -> Version(<<"^">>, <<16, 0, 0>>)
      [] OTHER -> Version(<<"^">>, <<17, 0, 2>>)

\* str.lower() on the letters that occur in the names of the model
UPPER == <<"A", "B", "C", "D", "E", "F", "G", "H", "I", "J", "K", "L", "M",
           "N", "O", "P", "Q", "R", "S", "T", "U", "V", "W", "X", "Y", "Z">>
LOWER == <<"a", "b", "c", "d", "e", "f", "g", "h", "i", "j", "k", "l", "m",
           "n", "o", "p", "q", "r", "s", "t", "u", "v", "w", "x", "y", "z">>

LowerChar(c) ==
    IF c \in Range(UPPER) THEN LOWER[CHOOSE i \in 1..Len(UPPER) : UPPER[i] = c] ELSE c

Lower(name) == [i \in 1..Len(name) |-> LowerChar(name[i])]

(***************************************************************************)
(* Manifest documents.  A document is what json.loads or tomllib.loads     *)
(* make of a blob: kind "invalid" when the loader raises, otherwise the    *)
(* kind of the top-level value.  A value below the top is kept with its    *)
(* kind and, for an object (dict, table), its entries in order; an entry   *)
(* has a name, the text str() gives for its value, and the form of that    *)
(* value: "string", "table" (a dict with a version) or "bare_table" (a     *)
(* dict without).  Kind "empty" stands for the falsy values that are not   *)
(* None: "", [], 0 and false.                                              *)
(***************************************************************************)
Value(kind, entries) == [kind |-> kind, entries |-> entries]
Absent == Value("absent", <<>>)
Entry(name, ver, form) == [name |-> name, ver |-> ver, form |-> form]

\* `x or {}`: None, a missing key and an empty container give {}
OrEmptyDict(v) ==
    IF v.kind \in {"absent", "null", "empty"} \/ (v.kind = "object" /\ v.entries = <<>>)
    THEN Value("object", <<>>) ELSE v

\* `.get` exists on a dict only
HasGet(kind) == kind = "object"

NPM_SECTIONS == <<"dependencies", "devDependencies", "peerDependencies",
                  "optionalDependencies">>
POETRY_SECTIONS == <<"dependencies", "dev-dependencies">>

\* package.json keeps str(ver); pyproject.toml keeps ver.get("version", "")
\* of a table and str(ver) of anything else
EntryVersion(ecosystem, e) ==
    IF ecosystem = "pypi" /\ e.form = "bare_table" THEN NoVersion ELSE e.ver

RECURSIVE SectionRows(_, _, _)
SectionRows(sections, secs, ecosystem) ==
    IF secs = <<>> THEN <<>>
    ELSE LET d == OrEmptyDict(sections[Head(secs)])
             rows == IF d.kind # "object" THEN <<>>
                     ELSE [i \in 1..Len(d.entries) |->
                             [ecosystem |-> ecosystem,
                              name |-> Lower(d.entries[i].name),
                              version |-> EntryVersion(ecosystem, d.entries[i])]]
         IN rows \o SectionRows(sections, Tail(secs), ecosystem)

\* lines 588-595: json.loads is in a try, pkg.get is not
\* (`json.loads(text or "{}")`: an empty blob is the empty object)
parse_package_json_raises(doc) == doc.kind # "invalid" /\ ~HasGet(doc.kind)

parse_package_json(doc) ==
    IF doc.kind # "object" THEN <<>>
    ELSE SectionRows(doc.sections, NPM_SECTIONS, "npm")

\* lines 626-627: data.get("tool") or {}, tool.get("poetry") or {}
parse_pyproject_toml_raises(doc) ==
    /\ doc.kind # "invalid"
    /\ \/ ~HasGet(OrEmptyDict(doc.tool).kind)
       \/ ~HasGet(OrEmptyDict(doc.poetry).kind)

parse_pyproject_toml(doc) ==
    IF doc.kind # "object" \/ parse_pyproject_toml_raises(doc) THEN <<>>
    ELSE SectionRows(doc.sections, POETRY_SECTIONS, "pypi")

\* lines 567-581: a document is the list of the stripped lines of the blob,
\* each with the form _dep_line_re and the bare-name pattern give it
RECURSIVE parse_requirements_txt(_)
parse_requirements_txt(lines) ==
    IF lines = <<>> THEN <<>>
    ELSE LET l == Head(lines)
             row == CASE l.form = "pinned" ->
                           <<[ecosystem |-> "pypi", name |-> Lower(l.name), version |-> l.ver]>>
                      [] l.form = "bare" ->
                           <<[ecosystem |-> "pypi", name |-> Lower(l.name), version |-> NoVersion]>>
                      [] OTHER -> <<>>
         IN row \o parse_requirements_txt(Tail(lines))

ReactName == <<"r", "e", "a", "c", "t">>

\* the package.json of the repository: one dependency, react
PackageJsonDoc(sha) ==
    [kind |-> "object",
     sections |-> [s \in Range(NPM_SECTIONS) |->
                     IF s = "dependencies"
                     THEN Value("object", <<Entry(ReactName, ReactVersion(sha), "string")>>)
                     ELSE Absent]]

\* the document of a blob: of a blob of the repository, or the one given
Loaded(blob) == IF "doc" \in DOMAIN blob THEN blob.doc ELSE PackageJsonDoc(blob.sha)

parse_manifest_raises(fname, blob) ==
    CASE fname = "package.json" -> parse_package_json_raises(Loaded(blob))
      [] fname = "pyproject.toml" -> parse_pyproject_toml_raises(Loaded(blob))
      [] OTHER -> FALSE

parse_manifest(fname, blob) ==
    CASE fname \in {"requirements.txt", "requirements-dev.txt"} ->
           parse_requirements_txt(Loaded(blob))
      [] fname = "package.json" -> parse_package_json(Loaded(blob))
      [] fname = "pyproject.toml" -> parse_pyproject_toml(Loaded(blob))
      [] OTHER -> <<>>

\* json.loads(blob).get("name") of a package.json, lower-cased by the caller
PackageName(blob) == <<"a", "p", "p">>

\* _py_fallback_imports on `from .b import foo`, `from . import helper`,
\* `import numpy`: ast.ImportFrom.module carries no leading dots ("b"), and
\* an absent module is reported as ".".  The query pack of python has no
\* "imports" query that yields captures with a name, so this is the path
\* extract_imports takes for every python blob.
_py_fallback_imports(blob) ==
    IF blob.path = SrcA
    THEN <<[module |-> <<"b">>, member |-> "foo", alias |-> ""],
           [module |-> <<".">>, member |-> "helper", alias |-> ""],
           [module |-> <<"numpy">>, member |-> "", alias |-> ""]>>
    ELSE <<>>

extract_imports(blob, lang) ==
    IF lang = "python" THEN _py_fallback_imports(blob) ELSE <<>>

Sym(kind, name, s, e) == [kind |-> kind, name |-> name, start_line |-> s, end_line |-> e]

extract_symbols_coarse(blob, lang) ==
    CASE blob.path = SrcA ->
           <<Sym("Function", "run", 1, 4), Sym("Call", "foo", 3, 3),
             Sym("Call", "helper", 3, 3), Sym("Call", "run", 4, 4)>>
      [] blob.path = SrcInit ->
           <<Sym("Function", "helper", 1, 2)>>
      [] blob.path = SrcB /\ blob.sha \in {"c1", "d1", "B"} ->
           <<Sym("Function", "foo", 1, 2)>>
      [] blob.path = SrcB /\ blob.sha = "c2" ->
           <<Sym("Class", "foo", 1, 3)>>
      [] blob.path = SrcPkgB ->
           <<Sym("Class", "foo", 1, 3)>>
      [] OTHER -> <<>>

\* `git show --unified=0`: the (start, end) ranges of the + side of each hunk
_git_hunks_added_new_file_ranges(sha, path) ==
    CASE sha = "c1" /\ path = SrcA -> << <<1, 4>> >>
      [] sha = "c1" /\ path = SrcInit -> << <<1, 2>> >>
      [] sha = "c1" /\ path = SrcB -> << <<1, 2>> >>
      [] sha = "c2" /\ path = SrcB -> << <<1, 3>> >>
      [] sha = "A" /\ path = SrcA -> << <<1, 10>> >>
      [] sha = "B" /\ path = SrcA -> << <<3, 4>> >>
      [] sha = "B" /\ path = SrcB -> << <<1, 20>> >>
      [] OTHER -> <<>>

(***************************************************************************)
(* Git driver.                                                             *)
(***************************************************************************)
RECURSIVE SelectSeq2(_, _)
SelectSeq2(s, keep) ==
    IF s = <<>> THEN <<>>
    ELSE IF Head(s) \in keep THEN <<Head(s)>> \o SelectSeq2(Tail(s), keep)
    ELSE SelectSeq2(Tail(s), keep)

\* variant: the walk includes the starting commit
_git_rev_list_since_Inclusive(branch, start_exclusive, max_commits) ==
    LET all == History(branch)
        base == IF start_exclusive \in {NULL, ""}
                THEN all
                ELSE SelectSeq2(all, (Range(all) \ Reach(start_exclusive))
                                        \cup {start_exclusive})
    IN IF max_commits > 0 /\ Len(base) > max_commits
       THEN SubSeq(base, Len(base) - max_commits + 1, Len(base))
       ELSE base

\* start_exclusive is NULL (None), "" or a sha; both None and "" are falsy.
\* `git rev-list --reverse --max-count=N` limits the walk to the N newest
\* commits before it reverses the output.
_git_rev_list_since(branch, start_exclusive, max_commits) ==
    LET all == History(branch)
        base == IF start_exclusive \in {NULL, ""}
                THEN all
                ELSE SelectSeq2(all, Range(all) \ Reach(start_exclusive))
    IN IF max_commits > 0 /\ Len(base) > max_commits
       THEN SubSeq(base, Len(base) - max_commits + 1, Len(base))
       ELSE base

\* the merge of name-status and numstat into file_changes
NumstatOf(numstat, p) ==
    LET hits == {i \in 1..Len(numstat) : numstat[i].path = p}
    IN IF hits = {} THEN [additions |-> 0, deletions |-> 0]
       ELSE LET i == CHOOSE j \in hits : TRUE
            IN [additions |-> numstat[i].additions, deletions |-> numstat[i].deletions]

RECURSIVE NumstatOnly(_, _)
NumstatOnly(numstat, seen) ==
    IF numstat = <<>> THEN <<>>
    ELSE LET e == Head(numstat)
         IN IF e.path \in seen THEN NumstatOnly(Tail(numstat), seen)
            ELSE <<[path |-> e.path, status |-> "M", old_path |-> NoPath,
                    additions |-> e.additions, deletions |-> e.deletions]>>
                 \o NumstatOnly(Tail(numstat), seen)

FileChanges(sha) ==
    LET nstat == _git_name_status(sha)
        numstat == _git_numstat(sha)
        fromStatus == [i \in 1..Len(nstat) |->
                         [path |-> nstat[i].path,
                          status |-> nstat[i].status,
                          old_path |-> nstat[i].old_path,
                          additions |-> NumstatOf(numstat, nstat[i].path).additions,
                          deletions |-> NumstatOf(numstat, nstat[i].path).deletions]]
    IN fromStatus \o NumstatOnly(numstat, {nstat[i].path : i \in 1..Len(nstat)})


(***************************************************************************)
(* Import resolver (Python dotted-relative specs).                         *)
(***************************************************************************)
_is_local_import(lang, module_spec) ==
    /\ lang = "python"
    /\ module_spec # <<>>
    /\ module_spec[1] = "."

RECURSIVE LeadingDots(_)
LeadingDots(spec) ==
    IF spec # <<>> /\ Head(spec) = "." THEN 1 + LeadingDots(Tail(spec)) ELSE 0

RECURSIVE Ascend(_, _)
Ascend(anchor, n) == IF n <= 0 THEN anchor ELSE Ascend(Parent(anchor), n - 1)

RECURSIVE Descend(_, _)
Descend(anchor, tail) ==
    IF tail = <<>> THEN anchor
    ELSE IF Head(tail) = "." THEN Descend(anchor, Tail(tail))
    ELSE Descend(Join(anchor, Head(tail)), Tail(tail))

Candidates(base_rel_file, module_spec) ==
    LET dots == LeadingDots(module_spec)
        tail == SubSeq(module_spec, dots + 1, Len(module_spec))
        anchor == Ascend(Parent(base_rel_file), Max2(0, dots - 1))
        spec == Descend(anchor, tail)
    IN <<WithSuffix(spec, ".py"), JoinFile(spec, "__init__", ".py")>>

RECURSIVE FirstExisting(_, _)
FirstExisting(cands, sha) ==
    IF cands = <<>> THEN NoPath
    ELSE IF Head(cands) \in TreeFiles(sha) THEN Head(cands)
    ELSE FirstExisting(Tail(cands), sha)

\* line 149: Path('.').with_suffix(".py") raises ValueError (empty name);
\* the spec is '.' when the anchor is the repository root and the tail empty
_resolve_local_module_path_raises(base_rel_file, module_spec, lang) ==
    /\ _is_local_import(lang, module_spec)
    /\ LET dots == LeadingDots(module_spec)
           tail == SubSeq(module_spec, dots + 1, Len(module_spec))
       IN Descend(Ascend(Parent(base_rel_file), Max2(0, dots - 1)), tail) = RootDir

_resolve_local_module_path(base_rel_file, module_spec, lang, sha) ==
    IF ~_is_local_import(lang, module_spec) THEN NoPath
    ELSE FirstExisting(Candidates(base_rel_file, module_spec), sha)

(***************************************************************************)
(* The graph store.                                                        *)
(***************************************************************************)
NullTime == -1

EmptyGraph ==
    [repo |-> {},
     branch |-> EmptyFn,           \* name -> [last_sha, last_time]
     has_branch |-> {},
     commit |-> EmptyFn,           \* sha -> attributes
     has_commit |-> {},            \* <<branch, sha>>
     contributor |-> EmptyFn,      \* key -> [name, email]
     authored |-> {},              \* <<key, sha>>
     file |-> EmptyFn,             \* path -> [repo_id, branch, ext, is_code]
     touched |-> EmptyFn,          \* <<sha, path>> -> [status, additions, deletions, old_path]
     symbol |-> EmptyFn,           \* <<path, name, kind>> -> attributes
     declares |-> {},              \* <<path, symbol key>>
     sees |-> {},                  \* <<sha, symbol key>>
     calls |-> EmptyFn,            \* <<caller key, target key>> -> at_line
     module |-> {},                \* <<spec, lang>>
     imports_file |-> EmptyFn,     \* <<src, dst, module>> -> [member, alias, resolved]
     imports_module |-> EmptyFn,   \* <<src, <<spec, lang>>>> -> [member, alias, resolved]
     dependency |-> {},            \* <<ecosystem, name>>
     updates_dep |-> EmptyFn,      \* <<sha, dependency>> -> [version, prev_version, is_major_bump]
     has_repo |-> {},              \* <<dependency, repo>>
     contrib_touched |-> EmptyFn,  \* <<key, path>> -> [count, last_touched_at]
     touched_symbol |-> EmptyFn,   \* <<sha, symbol key>> -> lines_changed
     index |-> {}]                 \* label(property) of each index

\* the indexes of the CREATE INDEX statements of ensure_indexes
INDEXES ==
    {"Repo(id)", "Branch(id)", "Commit(sha)", "Commit(committed_at)", "Commit(dow)",
     "Commit(hour)", "Contributor(key)", "File(path)", "File(repo_id)", "Symbol(key)",
     "Symbol(file_path)", "Dependency(name)", "Dependency(ecosystem)"}

\* every statement runs in its own try: one that the store rejects, or that
\* cannot reach the store, is logged at debug level and the next one follows
ensure_indexes(G, accepted) == [G EXCEPT !.index = @ \cup (INDEXES \cap accepted)]

\* a boolean property that may also be unset (null)
BoolStr(b) == IF b THEN "true" ELSE "false"

\* the File node `MERGE (dst:File {path:$dst})` creates: no property is set
BareFile == [repo_id |-> NULL, branch |-> NULL, ext |-> NULL, is_code |-> NULL]

NoCursor == [last_sha |-> NULL, last_time |-> NullTime]

mg_upsert_repo_branch(G, branch) ==
    [G EXCEPT !.repo = @ \cup {RepoId},
              !.branch = IF branch \in DOMAIN @ THEN @ ELSE Upsert(@, branch, NoCursor),
              !.has_branch = @ \cup {<<RepoId, branch>>}]

\* the row of the Branch node, read by the caller as c[0]
mg_get_branch_cursor(G, branch) ==
    IF branch \in DOMAIN G.branch THEN G.branch[branch] ELSE NoCursor

\* variant: a cursor that is already set is kept
mg_set_branch_cursor_KeepFirst(G, branch, last_sha, last_time) ==
    IF branch \in DOMAIN G.branch /\ G.branch[branch].last_sha = NULL
    THEN [G EXCEPT !.branch[branch] = [last_sha |-> last_sha, last_time |-> last_time]]
    ELSE G

mg_set_branch_cursor(G, branch, last_sha, last_time) ==
    IF branch \in DOMAIN G.branch
    THEN [G EXCEPT !.branch[branch] = [last_sha |-> last_sha, last_time |-> last_time]]
    ELSE G

_to_local_hour(epoch_sec) == (epoch_sec \div Hour) % 24

\* datetime.weekday(): Monday is 0; the epoch day is a Thursday
_to_dow(epoch_sec) == ((epoch_sec \div Day) + 3) % 7

NoZ == [num |-> 0, den2 |-> 0]
NoScore == -1

mg_link_commit(G, branch, meta, file_changes) ==
    LET files_changed == Len(file_changes)
        adds_total == SumSeq([i \in 1..Len(file_changes) |-> file_changes[i].additions])
        dels_total == SumSeq([i \in 1..Len(file_changes) |-> file_changes[i].deletions])
        sha == meta.sha
        ckey == IF meta.author_email # "" THEN meta.author_email ELSE meta.author_name
        created == IF sha \in DOMAIN G.commit THEN G.commit[sha]
                   ELSE [authored_at |-> meta.authored_at,
                         committed_at |-> meta.committed_at,
                         message |-> meta.subject,
                         files_changed |-> 0, lines_added |-> 0, lines_deleted |-> 0,
                         lines_changed |-> 0, hour |-> 0, dow |-> 0,
                         scored |-> FALSE, z_files |-> NoZ, z_lines |-> NoZ,
                         off_hours |-> FALSE, anomaly_score |-> NoScore,
                         anomaly_flags |-> <<>>]
        node == [created EXCEPT !.files_changed = files_changed,
                                !.lines_added = adds_total,
                                !.lines_deleted = dels_total,
                                !.lines_changed = adds_total + dels_total,
                                !.hour = _to_local_hour(meta.committed_at),
                                !.dow = _to_dow(meta.committed_at)]
    IN [G EXCEPT !.repo = @ \cup {RepoId},
                 !.branch = IF branch \in DOMAIN @ THEN @ ELSE Upsert(@, branch, NoCursor),
                 !.commit = Upsert(@, sha, node),
                 !.has_commit = @ \cup {<<branch, sha>>},
                 !.contributor = IF ckey \in DOMAIN @ THEN @
                                 ELSE Upsert(@, ckey, [name |-> meta.author_name,
                                                       email |-> meta.author_email]),
                 !.authored = @ \cup {<<ckey, sha>>}]

mg_link_file_touch(G, branch, sha, path, status, additions, deletions, ext, is_code, old_path) ==
    LET f == IF path \in DOMAIN G.file
             THEN [G.file[path] EXCEPT !.ext = ext, !.is_code = BoolStr(is_code)]
             ELSE [repo_id |-> RepoId, branch |-> branch, ext |-> ext,
                   is_code |-> BoolStr(is_code)]
        G1 == [G EXCEPT !.file = Upsert(@, path, f)]
    IN IF sha \in DOMAIN G.commit
       THEN [G1 EXCEPT !.touched = Upsert(@, <<sha, path>>,
                                          [status |-> status, additions |-> additions,
                                           deletions |-> deletions, old_path |-> old_path])]
       ELSE G1

mg_link_repo_package(G, ecosystem, package_name) ==
    [G EXCEPT !.dependency = @ \cup {<<ecosystem, package_name>>},
              !.repo = @ \cup {RepoId},
              !.has_repo = @ \cup {<< <<ecosystem, package_name>>, RepoId >>}]


SymKey(file_path, name, kind) == <<file_path, name, kind>>

RECURSIVE UpsertSymbolRows(_, _, _, _, _)
UpsertSymbolRows(G, file_path, lang, sha, batch) ==
    IF batch = <<>> THEN G
    ELSE LET sym == Head(batch)
             key == SymKey(file_path, sym.name, sym.kind)
             node == [name |-> sym.name, kind |-> sym.kind, file_path |-> file_path,
                      lang |-> lang, start_line |-> sym.start_line,
                      end_line |-> sym.end_line]
             G1 == [G EXCEPT !.symbol = Upsert(@, key, node)]
             hasFile == file_path \in DOMAIN G.file
             G2 == IF hasFile THEN [G1 EXCEPT !.declares = @ \cup {<<file_path, key>>}]
                   ELSE G1
             G3 == IF hasFile /\ sha \in DOMAIN G.commit
                   THEN [G2 EXCEPT !.sees = @ \cup {<<sha, key>>}]
                   ELSE G2
         IN UpsertSymbolRows(G3, file_path, lang, sha, Tail(batch))

mg_upsert_symbols(G, branch, file_path, lang, sha, symbols) ==
    UpsertSymbolRows(G, file_path, lang, sha,
                     SelectSeq(symbols, LAMBDA x : x.kind \in {"Function", "Class"}))

\* the symbols a file declares, and those among them with a given name
DeclaredBy(G, file_path) == {d[2] : d \in {e \in G.declares : e[1] = file_path}}

DeclaredNamed(G, file_path, name) ==
    {k \in DeclaredBy(G, file_path) : G.symbol[k].name = name}

RECURSIVE SetCallLines(_, _, _)
SetCallLines(calls, pairs, line) ==
    IF pairs = {} THEN calls
    ELSE LET pr == CHOOSE x \in pairs : TRUE
         IN SetCallLines(Upsert(calls, pr, line), pairs \ {pr}, line)

RECURSIVE UpsertCallRows(_, _, _, _)
UpsertCallRows(G, file_path, sha, calls) ==
    IF calls = <<>> THEN G
    ELSE LET c == Head(calls)
             targets == DeclaredNamed(G, file_path, c.name)
             pairs == DeclaredBy(G, file_path) \X targets
             G1 == [G EXCEPT !.calls = SetCallLines(@, pairs, c.start_line)]
             G2 == IF sha \in DOMAIN G.commit /\ pairs # {}
                   THEN [G1 EXCEPT !.sees = @ \cup {<<sha, t>> : t \in targets}]
                   ELSE G1
         IN UpsertCallRows(G2, file_path, sha, Tail(calls))

mg_upsert_calls(G, file_path, lang, sha, calls) ==
    UpsertCallRows(G, file_path, sha, SelectSeq(calls, LAMBDA c : c.name # ""))

_ranges_overlap(a, b) ==
    LET s == Max2(a[1], b[1])
        e == Min2(a[2], b[2])
    IN Max2(0, e - s + 1)

RECURSIVE TouchRows(_, _, _, _)
TouchRows(G, sha, file_path, rows) ==
    IF rows = <<>> THEN G
    ELSE LET r == Head(rows)
             syms == {k \in DOMAIN G.symbol :
                        G.symbol[k].file_path = file_path /\ G.symbol[k].name = r.name}
             bump(ts) ==
                [e \in (DOMAIN ts) \cup {<<sha, k>> : k \in syms} |->
                    IF e[1] = sha /\ e[2] \in syms
                    THEN (IF e \in DOMAIN ts THEN ts[e] ELSE 0) + r.delta
                    ELSE ts[e]]
             G1 == IF sha \in DOMAIN G.commit
                   THEN [G EXCEPT !.touched_symbol = bump(@)]
                   ELSE G
         IN TouchRows(G1, sha, file_path, Tail(rows))

\* touches: sequence of [name, delta], one entry per symbol name
mg_touch_symbol(G, sha, file_path, touches) ==
    TouchRows(G, sha, file_path, SelectSeq(touches, LAMBDA r : r.delta > 0))

NoneBump == "None"

Digits == {"0", "1", "2", "3", "4", "5", "6", "7", "8", "9"}

DigitVal(c) == CHOOSE d \in 0..9 : DigitChar(d) = c

\* str.strip() and the character class [\^~<>=\s]
Whitespace == {" "}
OperatorChars == {"^", "~", "<", ">", "="} \cup Whitespace

RECURSIVE LStrip(_, _)
LStrip(v, chars) ==
    IF v # <<>> /\ Head(v) \in chars THEN LStrip(Tail(v), chars) ELSE v

RECURSIVE RStrip(_, _)
RStrip(v, chars) ==
    IF v # <<>> /\ v[Len(v)] \in chars THEN RStrip(SubSeq(v, 1, Len(v) - 1), chars) ELSE v

\* re.sub(r'^[\^~<>=\s]*v?', '', v)
StripOperators(v) ==
    LET w == LStrip(v, OperatorChars)
    IN IF w # <<>> /\ Head(w) = "v" THEN Tail(w) ELSE w

\* the end of the greedy \d+ that starts at i
RECURSIVE RunEnd(_, _)
RunEnd(v, i) == IF i < Len(v) /\ v[i + 1] \in Digits THEN RunEnd(v, i + 1) ELSE i

\* int() of the digits v[i..j]
RECURSIVE IntOf(_, _, _)
IntOf(v, i, j) == IF j < i THEN 0 ELSE 10 * IntOf(v, i, j - 1) + DigitVal(v[j])

\* the optional group (?:\.(\d+)) after position j: <<value, end>>, the
\* value 0 and the end j when the group does not match
DotGroup(v, j) ==
    IF j + 2 <= Len(v) /\ v[j + 1] = "." /\ v[j + 2] \in Digits
    THEN <<IntOf(v, j + 2, RunEnd(v, j + 2)), RunEnd(v, j + 2)>>
    ELSE <<0, j>>

\* variant: the major component is one digit
Norm_OneDigit(v) ==
    IF v = <<>> THEN <<>>
    ELSE LET w == StripOperators(RStrip(LStrip(v, Whitespace), Whitespace))
             at == {i \in 1..Len(w) : w[i] \in Digits}
         IN IF at = {} THEN <<>>
            ELSE LET i == CHOOSE k \in at : \A o \in at : k <= o
                 IN <<DigitVal(w[i]), 0, 0>>

\* norm: <<major, minor, patch>> of the first match of
\* (\d+)(?:\.(\d+))?(?:\.(\d+))? anywhere in the stripped text, <<>> for None
Norm(v) ==
    IF v = <<>> THEN <<>>
    ELSE LET w == StripOperators(RStrip(LStrip(v, Whitespace), Whitespace))
             at == {i \in 1..Len(w) : w[i] \in Digits}
         IN IF at = {} THEN <<>>
            ELSE LET i == CHOOSE k \in at : \A o \in at : k <= o
                     j == RunEnd(w, i)
                     minor == DotGroup(w, j)
                     patch == DotGroup(w, minor[2])
                 IN <<IntOf(w, i, j), minor[1], patch[1]>>

_semver_major_bump(prev, new) ==
    LET p == Norm(prev)
        n == Norm(new)
    IN IF p = <<>> \/ n = <<>> THEN NoneBump
       ELSE IF n[1] > p[1] THEN "True" ELSE "False"

mg_inc_contributor_file_touch(G, sha, path, committed_at) ==
    LET authors == {a[1] : a \in {e \in G.authored : e[2] = sha}}
        hit == {<<u, path>> : u \in authors}
    IN IF sha \in DOMAIN G.commit /\ path \in DOMAIN G.file
       THEN [G EXCEPT !.contrib_touched =
                [e \in (DOMAIN @) \cup hit |->
                    IF e \in hit
                    THEN [count |-> (IF e \in DOMAIN @ THEN @[e].count ELSE 0) + 1,
                          last_touched_at |-> committed_at]
                    ELSE @[e]]]
       ELSE G


\* the version of the UPDATES_DEP edge of the latest commit committed
\* strictly before t that updates dep; the query names no branch
PrevVersion(G, dep, t) ==
    LET earlier == {e \in DOMAIN G.updates_dep :
                      e[2] = dep /\ G.commit[e[1]].committed_at < t}
        latest == {e \in earlier :
                      \A o \in earlier :
                         G.commit[o[1]].committed_at <= G.commit[e[1]].committed_at}
    IN IF earlier = {} THEN NoVersion
       ELSE G.updates_dep[CHOOSE e \in latest : TRUE].version

RECURSIVE UpsertDepRows(_, _, _, _)
UpsertDepRows(G, sha, t_now, deps) ==
    IF deps = <<>> THEN G
    ELSE LET d == Head(deps)
             dep == <<d.ecosystem, d.name>>
             prev_ver == PrevVersion(G, dep, t_now)
             major == _semver_major_bump(prev_ver, d.version)
             G1 == [G EXCEPT !.dependency = @ \cup {dep}]
             G2 == IF sha \in DOMAIN G.commit
                   THEN [G1 EXCEPT !.updates_dep =
                            Upsert(@, <<sha, dep>>,
                                   [version |-> d.version,
                                    prev_version |-> prev_ver,
                                    is_major_bump |-> (major = "True")])]
                   ELSE G1
         IN UpsertDepRows(G2, sha, t_now, Tail(deps))

mg_upsert_dependencies(G, branch, commit_meta, deps) ==
    UpsertDepRows(G, commit_meta.sha, commit_meta.committed_at, deps)

RECURSIVE UpsertImportRows(_, _, _, _, _)
UpsertImportRows(G, file_path, lang, imports, resolveds) ==
    IF imports = <<>> THEN G
    ELSE LET it == Head(imports)
             resolved == Head(resolveds)
             props(r) == [member |-> it.member, alias |-> it.alias, resolved |-> r]
             G1 == IF file_path \notin DOMAIN G.file THEN G
                   ELSE IF resolved # NoPath
                   THEN [G EXCEPT
                           !.file = IF resolved \in DOMAIN @ THEN @
                                    ELSE Upsert(@, resolved, BareFile),
                           !.imports_file =
                               Upsert(@, <<file_path, resolved, it.module>>, props(TRUE))]
                   ELSE [G EXCEPT
                           !.module = @ \cup {<<it.module, lang>>},
                           !.imports_module =
                               Upsert(@, <<file_path, <<it.module, lang>> >>, props(FALSE))]
         IN UpsertImportRows(G1, file_path, lang, Tail(imports), Tail(resolveds))

mg_upsert_imports(G, branch, file_path, lang, imports, local_resolutions) ==
    UpsertImportRows(G, file_path, lang, imports, local_resolutions)

\* the files caller_file imports through an IMPORTS edge with resolved = true
ResolvedImports(G, caller_file) ==
    {e[2] : e \in {x \in DOMAIN G.imports_file :
                      x[1] = caller_file /\ G.imports_file[x].resolved}}

RECURSIVE CreateCallLines(_, _, _)
CreateCallLines(calls, pairs, line) ==
    IF pairs = {} THEN calls
    ELSE LET pr == CHOOSE x \in pairs : TRUE
         IN CreateCallLines(IF pr \in DOMAIN calls THEN calls ELSE Upsert(calls, pr, line),
                            pairs \ {pr}, line)

\* variant: any other file that declares the name is a target
CrossfileTargets_AnyFile(G, caller_file, name) ==
    {k \in DOMAIN G.symbol : G.symbol[k].name = name /\ k \notin DeclaredBy(G, caller_file)}

CrossfileTargets(G, caller_file, name) ==
    UNION {DeclaredNamed(G, depFile, name) : depFile \in ResolvedImports(G, caller_file)}

RECURSIVE ResolveCallRows(_, _, _)
ResolveCallRows(G, caller_file, calls) ==
    IF calls = <<>> THEN G
    ELSE LET c == Head(calls)
             pairs == DeclaredBy(G, caller_file) \X CrossfileTargets(G, caller_file, c.name)
             G1 == [G EXCEPT !.calls = CreateCallLines(@, pairs, c.start_line)]
         IN ResolveCallRows(G1, caller_file, Tail(calls))

mg_resolve_crossfile_calls(G, caller_file, lang, calls) ==
    ResolveCallRows(G, caller_file, SelectSeq(calls, LAMBDA c : c.name # ""))


(***************************************************************************)
(* Anomaly scorer.  A z-score (x - mu) / sd over a window of n values with *)
(* sum S and sum of squares Q equals (n*x - S) / sqrt(n*Q - S*S); it is    *)
(* kept exactly, as the numerator and the square of the denominator.  The  *)
(* score, a float, is kept in hundredths, each term rounded down.          *)
(***************************************************************************)
K_WINDOW == 200
SCORE_CAP == 10
OFF_HOURS_BONUS == 2
Hundredths == 100

RECURSIVE SumOver(_, _)
SumOver(S, f) ==
    IF S = {} THEN 0
    ELSE LET x == CHOOSE y \in S : TRUE IN f[x] + SumOver(S \ {x}, f)

\* z(x, mu, sd) with mu, sd = _mean_std(vals)
ZScore(x, n, S, Q) ==
    IF n = 0 \/ n * Q - S * S = 0 \/ n * x - S = 0 THEN NoZ
    ELSE [num |-> n * x - S, den2 |-> n * Q - S * S]

\* z >= 3.0
ZAtLeast3(z) == z.den2 > 0 /\ z.num > 0 /\ z.num * z.num >= 9 * z.den2

AbsZ(z) == [num |-> IF z.num < 0 THEN -z.num ELSE z.num, den2 |-> z.den2]

\* the integer square root of n, by bisection of lo..hi
RECURSIVE ISqrtIn(_, _, _)
ISqrtIn(n, lo, hi) ==
    IF lo >= hi THEN lo
    ELSE LET mid == (lo + hi + 1) \div 2
         IN IF mid * mid <= n THEN ISqrtIn(n, mid, hi) ELSE ISqrtIn(n, lo, mid - 1)

ISqrt(n) == ISqrtIn(n, 0, Min2(n, 46340))

\* z in hundredths, with its sign
InHundredths(z) ==
    IF z.den2 = 0 THEN 0
    ELSE LET m == ISqrt((Hundredths * Hundredths * z.num * z.num) \div z.den2)
         IN IF z.num < 0 THEN -m ELSE m

\* variant: the sum of the terms without the cap
anomaly_score_Uncapped(z_files, z_lines, off_hours) ==
    InHundredths(AbsZ(z_files)) + InHundredths(AbsZ(z_lines)) \div 2
        + (IF off_hours THEN OFF_HOURS_BONUS * Hundredths ELSE 0)

\* min(10.0, abs(z_files) + 0.5 * abs(z_lines) + (2.0 if off_hours else 0.0))
anomaly_score(z_files, z_lines, off_hours) ==
    Min2(SCORE_CAP * Hundredths,
         InHundredths(AbsZ(z_files)) + InHundredths(AbsZ(z_lines)) \div 2
            + (IF off_hours THEN OFF_HOURS_BONUS * Hundredths ELSE 0))

\* variant: the neighbouring hours without the wrap at midnight
frac_off_hours_exceeds_NoWrap(G, window, h) ==
    LET n == Cardinality(window)
        neighbors == {h - 1, h, h + 1}
        good == Cardinality({c \in window : G.commit[c].hour \in neighbors})
    IN n > 0 /\ 20 * (n - good) > 19 * n

\* 1.0 - good / n > 0.95
frac_off_hours_exceeds(G, window, h) ==
    LET n == Cardinality(window)
        neighbors == {(h - 1) % 24, h, (h + 1) % 24}
        good == Cardinality({c \in window : G.commit[c].hour \in neighbors})
    IN n > 0 /\ 20 * (n - good) > 19 * n

\* the k latest earlier commits of the same author on the branch
AnomalyWindow(G, branch, sha, ckey, k) ==
    LET t == G.commit[sha].committed_at
        cand == {c \in DOMAIN G.commit :
                    /\ <<branch, c>> \in G.has_commit
                    /\ <<ckey, c>> \in G.authored
                    /\ c # sha
                    /\ G.commit[c].committed_at < t}
    IN {c \in cand :
          Cardinality({o \in cand :
                         G.commit[o].committed_at > G.commit[c].committed_at}) < k}

score_commit_anomaly(G, branch, sha, k) ==
    LET authors == {a[1] : a \in {e \in G.authored : e[2] = sha}}
    IN IF sha \notin DOMAIN G.commit \/ <<branch, sha>> \notin G.has_commit \/ authors = {}
       THEN G
       ELSE
         LET ckey == CHOOSE a \in authors : TRUE
             now == G.commit[sha]
             W == AnomalyWindow(G, branch, sha, ckey, k)
             n == Cardinality(W)
             files == [c \in W |-> G.commit[c].files_changed]
             lines == [c \in W |-> G.commit[c].lines_changed]
             files2 == [c \in W |-> G.commit[c].files_changed * G.commit[c].files_changed]
             lines2 == [c \in W |-> G.commit[c].lines_changed * G.commit[c].lines_changed]
             z_files == ZScore(now.files_changed, n, SumOver(W, files), SumOver(W, files2))
             z_lines == ZScore(now.lines_changed, n, SumOver(W, lines), SumOver(W, lines2))
             off_hours == frac_off_hours_exceeds(G, W, now.hour)
             flags == (IF ZAtLeast3(z_files) THEN <<"files_spike">> ELSE <<>>)
                      \o (IF ZAtLeast3(z_lines) THEN <<"lines_spike">> ELSE <<>>)
                      \o (IF off_hours THEN <<"off_hours">> ELSE <<>>)
         IN [G EXCEPT !.commit[sha] =
                [@ EXCEPT !.scored = TRUE,
                          !.z_files = z_files,
                          !.z_lines = z_lines,
                          !.off_hours = off_hours,
                          !.anomaly_score = anomaly_score(z_files, z_lines, off_hours),
                          !.anomaly_flags = flags]]


(***************************************************************************)
(* The body of the per-file loop of run_branch_ingest, as the sequence of  *)
(* graph writes it performs for one entry of file_changes.                 *)
(***************************************************************************)
CHURN_CUTOFF == 200000
PROGRESS_EVERY == 20

Defs(symbols) == SelectSeq(symbols, LAMBDA x : x.kind \in {"Function", "Class"})
Calls(symbols) == SelectSeq(symbols, LAMBDA x : x.kind = "Call")

RECURSIVE AddTouch(_, _, _)
AddTouch(touches, name, delta) ==
    IF touches = <<>> THEN <<[name |-> name, delta |-> delta]>>
    ELSE IF Head(touches).name = name
    THEN <<[name |-> name, delta |-> Head(touches).delta + delta]>> \o Tail(touches)
    ELSE <<Head(touches)>> \o AddTouch(Tail(touches), name, delta)

\* touches[name] = sum over the definitions called name of their overlap
\* with the added line ranges
RECURSIVE SymbolTouches(_, _, _)
SymbolTouches(syms, hunk_ranges, touches) ==
    IF syms = <<>> THEN touches
    ELSE LET sdef == Head(syms)
             rng == <<sdef.start_line, sdef.end_line>>
             delta == SumSeq([i \in 1..Len(hunk_ranges) |->
                                _ranges_overlap(rng, hunk_ranges[i])])
             skip == sdef.start_line <= 0 \/ sdef.end_line <= 0
                       \/ sdef.end_line < sdef.start_line
         IN SymbolTouches(Tail(syms), hunk_ranges,
                          IF skip \/ delta <= 0 THEN touches
                          ELSE AddTouch(touches, sdef.name, delta))

LocalPaths(sha, path, lang, imports) ==
    [i \in 1..Len(imports) |->
        _resolve_local_module_path(path, imports[i].module, lang, sha)]

\* the graph writes the loop body performs for fc, in order, when none raises
FileStages(sha, fc) ==
    LET blob == _git_show_file(sha, fc.path)
        fname == BaseName(fc.path)
        lang == EXT_TO_LANG(_file_ext(fc.path))
        symbols == extract_symbols_coarse(blob, lang)
        parsed == ~(fc.status = "D" \/ ~_is_code_file(fc.path))
                    /\ ~(fc.additions + fc.deletions > CHURN_CUTOFF)
    IN <<"link_file_touch">>
       \o (IF blob = NoBlob THEN <<>>
           ELSE (IF fname \in SPECIAL_CODE_FILES /\ parse_manifest(fname, blob) # <<>>
                 THEN <<"upsert_dependencies">> ELSE <<>>)
             \o (IF fname = "package.json" /\ PackageName(blob) # <<>>
                 THEN <<"link_repo_package">> ELSE <<>>)
             \o (IF extract_imports(blob, lang) # <<>>
                 THEN <<"upsert_imports">> ELSE <<>>)
             \o (IF ~parsed THEN <<>>
                 ELSE (IF Defs(symbols) # <<>> THEN <<"upsert_symbols">> ELSE <<>>)
                   \o (IF Calls(symbols) # <<>>
                       THEN <<"upsert_calls", "resolve_crossfile_calls">> ELSE <<>>)
                   \o (IF SymbolTouches(Defs(symbols),
                                        _git_hunks_added_new_file_ranges(sha, fc.path),
                                        <<>>) # <<>>
                       THEN <<"touch_symbol">> ELSE <<>>)
                   \o <<"inc_contributor_file_touch">>))

\* the stages whose exception is caught inside the loop body
GuardedStages == {"link_repo_package", "touch_symbol"}

ApplyStage(G, stage, branch, sha, fc) ==
    LET blob == _git_show_file(sha, fc.path)
        meta == _git_commit_meta(sha)
        lang == EXT_TO_LANG(_file_ext(fc.path))
        imports == extract_imports(blob, lang)
        symbols == extract_symbols_coarse(blob, lang)
    IN CASE stage = "link_file_touch" ->
              mg_link_file_touch(G, branch, sha, fc.path, fc.status, fc.additions,
                                 fc.deletions, _file_ext(fc.path),
                                 _is_code_file(fc.path), fc.old_path)
         [] stage = "upsert_dependencies" ->
              mg_upsert_dependencies(G, branch, meta, parse_manifest(BaseName(fc.path), blob))
         [] stage = "link_repo_package" ->
              mg_link_repo_package(G, "npm", PackageName(blob))
         [] stage = "upsert_imports" ->
              mg_upsert_imports(G, branch, fc.path, lang, imports,
                                LocalPaths(sha, fc.path, lang, imports))
         [] stage = "upsert_symbols" ->
              mg_upsert_symbols(G, branch, fc.path, lang, sha, Defs(symbols))
         [] stage = "upsert_calls" ->
              mg_upsert_calls(G, fc.path, lang, sha, Calls(symbols))
         [] stage = "resolve_crossfile_calls" ->
              mg_resolve_crossfile_calls(G, fc.path, lang, Calls(symbols))
         [] stage = "touch_symbol" ->
              mg_touch_symbol(G, sha, fc.path,
                              SymbolTouches(Defs(symbols),
                                            _git_hunks_added_new_file_ranges(sha, fc.path),
                                            <<>>))
         [] stage = "inc_contributor_file_touch" ->
              mg_inc_contributor_file_touch(G, sha, fc.path, meta.committed_at)

\* apply stages[from..to] in order, leaving out the stage at index skip
RECURSIVE ApplyStages(_, _, _, _, _, _, _, _)
ApplyStages(G, stages, from, to, skip, branch, sha, fc) ==
    IF from > to THEN G
    ELSE ApplyStages(IF from = skip THEN G
                     ELSE ApplyStage(G, stages[from], branch, sha, fc),
                     stages, from + 1, to, skip, branch, sha, fc)


(***************************************************************************)
(* run_branch_ingest as a state machine.                                   *)
(*                                                                         *)
(*   g         the graph store                                             *)
(*   driver    the process-global driver handle of memgraph_db             *)
(*   pc        idle | commit | file | score | cursor | finish              *)
(*   run       the arguments and the commit list (todo) of the current or  *)
(*             latest run                                                  *)
(*   idx, fidx position in todo and in file_changes                        *)
(*   ingested  the counter of run_branch_ingest                            *)
(*   emitted   the statuses the run passed to update_task_status           *)
(* History variables, written but never read by the actions' guards apart  *)
(* from the two exploration bounds:                                        *)
(*   runs, failures  number of runs started and of exceptions raised       *)
(*   runOk      commits of this run whose cursor write returned            *)
(*   runFailed  commits of this run whose exception reached the handler    *)
(*   runInner   commits of this run with an exception caught in the body   *)
(*   lastFailed per branch, runFailed of the latest finished run           *)
(*   owed       lastFailed of the branch as it was when this run started   *)
(*   done       the steps that returned for the commit at idx, in order    *)
(*   snap       the latest finished run: arguments, todo, outcome, graph   *)
(*   prev       snap as it was when this run started                       *)
(* Outside the runs above:                                                 *)
(*   inp        the inputs of a stand-alone check                          *)
(*   _driver    memgraph_db._driver as concurrent ingests see it: 0 (None) *)
(*              or the position in drivers of the object it refers to      *)
(*   drivers    the driver objects created so far, each open or closed     *)
(*   task       per concurrent ingest: position, the driver it holds, the  *)
(*              graph operations left, whether one of them failed, the     *)
(*              statuses it passed to update_task_status                   *)
(***************************************************************************)
VARIABLES g, driver, pc, run, idx, fidx, ingested, emitted,
          runs, failures, runOk, runFailed, runInner, done, lastFailed, owed,
          snap, prev, inp, _driver, drivers, task

\* the state of one sequence of ingest runs
ingest == <<g, driver, pc, run, idx, fidx, ingested, emitted,
            runs, failures, runOk, runFailed, runInner, done, lastFailed, owed,
            snap, prev>>

\* what the ingest runs leave alone: the inputs of the stand-alone checks
shared == <<_driver, drivers, task>>

aside == <<inp, shared>>

vars == <<ingest, aside>>

NoInput == [step |-> 0]

Tasks == {1, 2}
NoDriver == 0
NoTask == [pc |-> "idle", held |-> NoDriver, left |-> 0, failed |-> FALSE,
           emitted |-> <<>>]

InitShared ==
    /\ _driver = NoDriver
    /\ drivers = <<>>
    /\ task = [t \in Tasks |-> NoTask]

StartChoices == {NULL, ""} \cup Shas
WalkMaxChoices == {0, 2}

\* bootstrap: "ok", or the step of lines 1295-1309 that did not succeed
NoRun == [branch |-> NULL, start |-> NULL, max_commits |-> 0, todo |-> <<>>,
          cursor |-> NULL, bootstrap |-> "ok"]

NoSnap == [run |-> NoRun, clean |-> FALSE, g |-> EmptyGraph]

Step(op, i) == [op |-> op, file |-> i]

Status(status, message) == [status |-> status, message |-> message]

InitIngest ==
    /\ g = EmptyGraph
    /\ driver = "none"
    /\ pc = "idle"
    /\ run = NoRun
    /\ idx = 0
    /\ fidx = 0
    /\ ingested = 0
    /\ emitted = <<>>
    /\ runs = 0
    /\ failures = 0
    /\ runOk = <<>>
    /\ runFailed = {}
    /\ runInner = {}
    /\ done = <<>>
    /\ lastFailed = [b \in Branches \cup {ScenarioBranch} |-> {}]
    /\ owed = {}
    /\ snap = NoSnap
    /\ prev = NoSnap

Init ==
    /\ InitIngest
    /\ inp = NoInput
    /\ InitShared

Sha == run.todo[idx]

\* the record of a finished run, for comparisons between passes
Snapshot(r, G) ==
    [run |-> r, clean |-> runFailed = {} /\ runInner = {}, g |-> G]

\* lines 1295-1315: indexes, branch upsert, starting cursor, commit list
\* variant: the stored cursor wins over the explicit start
StartCursor_StoredFirst(G, branch, start) ==
    IF mg_get_branch_cursor(G, branch).last_sha # NULL
    THEN mg_get_branch_cursor(G, branch).last_sha
    ELSE start

\* lines 1302-1306: the explicit start unless it is None, else the stored one
StartCursor(G, branch, start) ==
    IF start # NULL THEN start
    ELSE mg_get_branch_cursor(G, branch).last_sha

StartRunWith(branch, start, max_commits, accepted) ==
    /\ pc = "idle"
    /\ runs < MaxRuns
    /\ LET G1 == mg_upsert_repo_branch(ensure_indexes(g, accepted), branch)
           cursor == StartCursor(G1, branch, start)
           todo == _git_rev_list_since(branch, cursor, max_commits)
           r == [branch |-> branch, start |-> start, max_commits |-> max_commits,
                 todo |-> todo, cursor |-> cursor,
                 bootstrap |-> IF accepted = INDEXES THEN "ok" ELSE "ensure_indexes"]
       IN /\ g' = G1
          /\ driver' = "open"
          /\ run' = r
          /\ ingested' = 0
          /\ idx' = IF todo = <<>> THEN 0 ELSE 1
          /\ fidx' = 0
          /\ runOk' = <<>>
          /\ runFailed' = {}
          /\ runInner' = {}
          /\ done' = <<>>
          /\ owed' = lastFailed[branch]
          /\ prev' = snap
          /\ IF todo = <<>>
             THEN /\ emitted' = <<Status("completed", "No new commits")>>
                  /\ pc' = "idle"
                  /\ lastFailed' = [lastFailed EXCEPT ![branch] = {}]
                  /\ snap' = [run |-> r, clean |-> TRUE, g |-> G1]
             ELSE /\ emitted' = <<Status("in_progress", "Found commits")>>
                  /\ pc' = "commit"
                  /\ UNCHANGED lastFailed
                  /\ UNCHANGED snap
    /\ runs' = runs + 1

StartRun(branch, start, max_commits) ==
    /\ UNCHANGED aside
    /\ StartRunWith(branch, start, max_commits, INDEXES)
    /\ UNCHANGED failures

\* the position after the commit at idx: the next commit, or the end of the loop
NextCommit ==
    /\ idx' = idx + 1
    /\ fidx' = 0
    /\ done' = <<>>
    /\ pc' = IF idx = Len(run.todo) THEN "finish" ELSE "commit"

\* lines 1320-1349: meta, numstat, name-status, file_changes, mg_link_commit
LinkCommit ==
    /\ UNCHANGED aside
    /\ pc = "commit"
    /\ g' = mg_link_commit(g, run.branch, _git_commit_meta(Sha), FileChanges(Sha))
    /\ pc' = IF FileChanges(Sha) = <<>> THEN "score" ELSE "file"
    /\ fidx' = 1
    /\ done' = <<Step("link_commit", 0)>>
    /\ UNCHANGED <<driver, run, idx, ingested, emitted, runs, failures, runOk,
                   runFailed, runInner, lastFailed, owed, snap, prev>>

\* variant: the cursor write follows the last file directly
AfterFile_SkipScore ==
    /\ done' = Append(done, Step("file", fidx))
    /\ IF fidx = Len(FileChanges(Sha)) THEN pc' = "cursor" /\ fidx' = fidx
       ELSE pc' = "file" /\ fidx' = fidx + 1

AfterFile ==
    /\ done' = Append(done, Step("file", fidx))
    /\ IF fidx = Len(FileChanges(Sha)) THEN pc' = "score" /\ fidx' = fidx
       ELSE pc' = "file" /\ fidx' = fidx + 1

\* lines 1352-1456: one iteration of the per-file loop, nothing raising
ProcessFile ==
    /\ UNCHANGED aside
    /\ pc = "file"
    /\ LET fc == FileChanges(Sha)[fidx]
           stages == FileStages(Sha, fc)
       IN g' = ApplyStages(g, stages, 1, Len(stages), 0, run.branch, Sha, fc)
    /\ AfterFile
    /\ UNCHANGED <<driver, run, idx, ingested, emitted, runs, failures, runOk,
                   runFailed, runInner, lastFailed, owed, snap, prev>>

\* lines 1376-1383 and 1423-1451: a guarded write raises, the exception is
\* logged inside the loop body and the iteration goes on without that write
ProcessFileGuardedRaise ==
    /\ UNCHANGED aside
    /\ pc = "file"
    /\ failures < MaxFailures
    /\ LET fc == FileChanges(Sha)[fidx]
           stages == FileStages(Sha, fc)
       IN \E k \in 1..Len(stages) :
            /\ stages[k] \in GuardedStages
            /\ g' = ApplyStages(g, stages, 1, Len(stages), k, run.branch, Sha, fc)
    /\ AfterFile
    /\ failures' = failures + 1
    /\ runInner' = runInner \cup {Sha}
    /\ UNCHANGED <<driver, run, idx, ingested, emitted, runs, runOk,
                   runFailed, lastFailed, owed, snap, prev>>

\* variant: the handler leaves the loop
CommitHandler_Abort ==
    /\ runFailed' = runFailed \cup {Sha}
    /\ failures' = failures + 1
    /\ idx' = idx + 1
    /\ fidx' = 0
    /\ done' = <<>>
    /\ pc' = "finish"
    /\ UNCHANGED <<driver, run, ingested, emitted, runs, runOk, runInner,
                   lastFailed, owed, snap, prev>>

\* lines 1469-1470: the handler of the per-commit try
CommitHandler ==
    /\ runFailed' = runFailed \cup {Sha}
    /\ failures' = failures + 1
    /\ NextCommit
    /\ UNCHANGED <<driver, run, ingested, emitted, runs, runOk, runInner,
                   lastFailed, owed, snap, prev>>

\* an unguarded write of the loop body raises: the writes before it stay
ProcessFileRaise ==
    /\ UNCHANGED aside
    /\ pc = "file"
    /\ failures < MaxFailures
    /\ LET fc == FileChanges(Sha)[fidx]
           stages == FileStages(Sha, fc)
       IN \E k \in 1..Len(stages) :
            /\ stages[k] \notin GuardedStages
            /\ g' = ApplyStages(g, stages, 1, k - 1, 0, run.branch, Sha, fc)
    /\ CommitHandler

\* the git reads or mg_link_commit, score_commit_anomaly, or
\* mg_set_branch_cursor raise before they write
StepRaise ==
    /\ UNCHANGED aside
    /\ pc \in {"commit", "score", "cursor"}
    /\ failures < MaxFailures
    /\ g' = g
    /\ CommitHandler

\* line 1459
ScoreCommit ==
    /\ UNCHANGED aside
    /\ pc = "score"
    /\ g' = score_commit_anomaly(g, run.branch, Sha, K_WINDOW)
    /\ pc' = "cursor"
    /\ done' = Append(done, Step("score_commit_anomaly", 0))
    /\ UNCHANGED <<driver, run, idx, fidx, ingested, emitted, runs, failures, runOk,
                   runFailed, runInner, lastFailed, owed, snap, prev>>

\* lines 1462-1467: advance the cursor, count, report progress.  The report
\* is due at every PROGRESS_EVERY-th ingested commit, which the walks of
\* History never reach.
SetCursor ==
    /\ UNCHANGED aside
    /\ pc = "cursor"
    /\ g' = mg_set_branch_cursor(g, run.branch, Sha, _git_commit_meta(Sha).committed_at)
    /\ ingested' = ingested + 1
    /\ emitted' = IF (ingested + 1) % PROGRESS_EVERY = 0
                  THEN Append(emitted, Status("in_progress", "Ingested so far"))
                  ELSE emitted
    /\ runOk' = Append(runOk, Sha)
    /\ NextCommit
    /\ UNCHANGED <<driver, run, runs, failures, runFailed, runInner,
                   lastFailed, owed, snap, prev>>

\* lines 1472-1474
Finish ==
    /\ UNCHANGED aside
    /\ pc = "finish"
    /\ UNCHANGED done
    /\ emitted' = Append(emitted, Status("completed", "Ingested commits"))
    /\ driver' = "none"
    /\ pc' = "idle"
    /\ lastFailed' = [lastFailed EXCEPT ![run.branch] = runFailed]
    /\ snap' = Snapshot(run, g)
    /\ UNCHANGED <<g, run, idx, fidx, ingested, runs, failures, runOk, runFailed,
                   runInner, owed, prev>>

Next ==
    \/ \E b \in Branches, s \in StartChoices, m \in WalkMaxChoices : StartRun(b, s, m)
    \/ LinkCommit
    \/ ProcessFile
    \/ ProcessFileGuardedRaise
    \/ ProcessFileRaise
    \/ StepRaise
    \/ ScoreCommit
    \/ SetCursor
    \/ Finish

Spec == Init /\ [][Next]_vars

TypeOK ==
    /\ pc \in {"idle", "commit", "file", "score", "cursor", "finish"}
    /\ runs \in 0..MaxRuns
    /\ failures \in 0..MaxFailures


(***************************************************************************)
(* Properties.                                                             *)
(***************************************************************************)
Cursor(G, branch) == mg_get_branch_cursor(G, branch)

HeadSha(branch) == History(branch)[Len(History(branch))]

\* the steps of one commit that come before the cursor write
CommitSteps(sha) ==
    <<Step("link_commit", 0)>>
    \o [i \in 1..Len(FileChanges(sha)) |-> Step("file", i)]
    \o <<Step("score_commit_anomaly", 0)>>

C2_FailedCommitsAreRetried ==
    (runs > 0 /\ run.start = NULL) => owed \subseteq Range(run.todo)

\* C3: no step lowers the last_time stored on a Branch node.
C3_LastTimeNeverDecreases ==
    [][\A b \in DOMAIN g.branch :
          Cursor(g', b).last_time >= Cursor(g, b).last_time]_vars

\* the commits of the walk whose exception did not reach the handler
Completed == {i \in 1..Len(run.todo) : run.todo[i] \notin runFailed}

LastCompleted == run.todo[CHOOSE i \in Completed : \A j \in Completed : j <= i]

SameRangeTwice ==
    /\ pc = "idle"
    /\ runs >= 2
    /\ snap.run.branch = prev.run.branch
    /\ snap.run.start = prev.run.start
    /\ snap.run.start # NULL
    /\ snap.run.todo = prev.run.todo
    /\ snap.run.todo # <<>>
    /\ snap.clean
    /\ prev.clean

\* the graph without the values of the two monotonic counters
NonCounter(G) ==
    [G EXCEPT !.contrib_touched =
                 [e \in DOMAIN @ |-> [@[e] EXCEPT !.count = 0]],
              !.touched_symbol = [e \in DOMAIN @ |-> 0]]

\* C5: a second pass over the same commit range leaves nodes, edges and
\* non-counter attributes as the first pass left them.
C5_SecondPassIsIdempotent ==
    SameRangeTwice => NonCounter(snap.g) = NonCounter(prev.g)

\* C6: after a second pass over the range of a first pass on a fresh graph,
\* every Contributor TOUCHED count and every TOUCHED_SYMBOL lines_changed is
\* twice its value after the first pass.
C6_CountersDouble ==
    (SameRangeTwice /\ runs = 2)
        => /\ \A e \in DOMAIN snap.g.contrib_touched :
                /\ e \in DOMAIN prev.g.contrib_touched
                /\ snap.g.contrib_touched[e].count = 2 * prev.g.contrib_touched[e].count
           /\ \A e \in DOMAIN snap.g.touched_symbol :
                /\ e \in DOMAIN prev.g.touched_symbol
                /\ snap.g.touched_symbol[e] = 2 * prev.g.touched_symbol[e]

\* C7: a run without startSha on a branch whose stored cursor is the branch
\* head computes an empty commit list, leaves the graph as it was, emits the
\* one status completed / "No new commits" and returns.
C7_ResumeAtHeadIsNoOp ==
    [][(/\ pc = "idle"
        /\ runs' = runs + 1
        /\ run'.start = NULL
        /\ Cursor(g, run'.branch).last_sha = HeadSha(run'.branch))
          => /\ run'.todo = <<>>
             /\ g' = g
             /\ emitted' = <<Status("completed", "No new commits")>>
             /\ pc' = "idle"
             /\ ingested' = 0]_vars

\* the state after such a run
C7_Witness ==
    /\ pc = "idle"
    /\ runs >= 2
    /\ run.start = NULL
    /\ run.cursor = HeadSha(run.branch)
    /\ run.todo = <<>>
    /\ emitted = <<Status("completed", "No new commits")>>
    /\ Cursor(g, run.branch).last_sha = HeadSha(run.branch)

TouchedOf(G, sha) == {e \in DOMAIN G.touched : e[1] = sha}

\* C8: when no run is in progress, files_changed and lines_changed of every
\* Commit equal the number of its TOUCHED edges and their total churn.
C8_RollupsMatchTouched ==
    pc = "idle" =>
        \A c \in DOMAIN g.commit :
            /\ g.commit[c].files_changed = Cardinality(TouchedOf(g, c))
            /\ g.commit[c].lines_changed =
                   SumOver(TouchedOf(g, c),
                           [e \in TouchedOf(g, c) |->
                               g.touched[e].additions + g.touched[e].deletions])

DeclaringFiles(G, k) == {d[1] : d \in {e \in G.declares : e[2] = k}}

\* C9: both ends of every CALLS edge are Symbols, and a CALLS edge between
\* symbols declared by different files has an IMPORTS edge with
\* resolved = true from the caller's file to the callee's file.
C9_CrossfileCallsFollowImports ==
    \A e \in DOMAIN g.calls :
        /\ e[1] \in DOMAIN g.symbol
        /\ e[2] \in DOMAIN g.symbol
        /\ \A fa \in DeclaringFiles(g, e[1]), fb \in DeclaringFiles(g, e[2]) :
              fa # fb =>
                 \E i \in DOMAIN g.imports_file :
                    i[1] = fa /\ i[2] = fb /\ g.imports_file[i].resolved = TRUE

\* a CALLS edge between symbols of two files is in the graph
C9_Witness ==
    \E e \in DOMAIN g.calls :
        /\ DeclaringFiles(g, e[1]) # {}
        /\ DeclaringFiles(g, e[2]) # {}
        /\ DeclaringFiles(g, e[1]) \cap DeclaringFiles(g, e[2]) = {}

\* the version of the UPDATES_DEP edge of the latest commit of the branch
\* committed strictly before t that updates dep
ExpectedPrev(G, branch, dep, t) ==
    LET earlier == {e \in DOMAIN G.updates_dep :
                      /\ e[2] = dep
                      /\ <<branch, e[1]>> \in G.has_commit
                      /\ G.commit[e[1]].committed_at < t}
        latest == {e \in earlier :
                      \A o \in earlier :
                         G.commit[o[1]].committed_at <= G.commit[e[1]].committed_at}
    IN IF earlier = {} THEN NoVersion
       ELSE G.updates_dep[CHOOSE e \in latest : TRUE].version

\* C10: whenever a step of a run on a branch writes an UPDATES_DEP edge, its
\* prev_version is the version the latest earlier commit of that branch
\* gave the Dependency, and empty when the branch has no such commit.
C10_PrevVersionFromSameBranch ==
    [][\A e \in DOMAIN g'.updates_dep :
          (e \notin DOMAIN g.updates_dep \/ g'.updates_dep[e] # g.updates_dep[e])
             => g'.updates_dep[e].prev_version =
                   ExpectedPrev(g, run.branch, e[2], g'.commit[e[1]].committed_at)]_vars


(***************************************************************************)
(* Bump detection on arbitrary version strings: two commits of main write *)
(* the same Dependency, the first with version inp.prev, the second with  *)
(* inp.new; a run may also start with the second.                          *)
(***************************************************************************)
MaxVersionLen == 3

VersionChars == {"v", ".", "1", "2"}

VersionStrings ==
    UNION {[1..n -> VersionChars] : n \in 0..MaxVersionLen}
        \cup {ReactVersion("c1"), ReactVersion("c3")}

React(version) == <<[ecosystem |-> "npm", name |-> ReactName, version |-> version]>>

\* lines 1324-1375 for one commit whose package.json has the given version
DependencyCommit(G, sha, version) ==
    LET meta == _git_commit_meta(sha)
        G1 == mg_link_commit(mg_upsert_repo_branch(G, "main"), "main", meta, FileChanges(sha))
    IN mg_upsert_dependencies(G1, "main", meta, React(version))

InitBump ==
    /\ InitIngest
    /\ inp \in [step : {0}, prev : VersionStrings, new : VersionStrings]
    /\ InitShared

BumpFirst ==
    /\ inp.step = 0
    /\ g' = DependencyCommit(g, "c1", inp.prev)
    /\ inp' = [inp EXCEPT !.step = 1]
    /\ UNCHANGED <<driver, pc, run, idx, fidx, ingested, emitted, runs, failures,
                   runOk, runFailed, runInner, done, lastFailed, owed, snap, prev>>
    /\ UNCHANGED shared

BumpSecond ==
    /\ inp.step \in {0, 1}
    /\ g' = DependencyCommit(g, "c3", inp.new)
    /\ inp' = [inp EXCEPT !.step = 2]
    /\ UNCHANGED <<driver, pc, run, idx, fidx, ingested, emitted, runs, failures,
                   runOk, runFailed, runInner, done, lastFailed, owed, snap, prev>>
    /\ UNCHANGED shared

NextBump == BumpFirst \/ BumpSecond

SpecBump == InitBump /\ [][NextBump]_vars

\* the number a reader takes as the major component of a version: the
\* value of its first run of digits
HasNumber(v) == \E i \in 1..Len(v) : v[i] \in Digits

MajorOf(v) ==
    LET i == CHOOSE k \in 1..Len(v) :
                 v[k] \in Digits /\ \A o \in 1..(k - 1) : v[o] \notin Digits
        j == CHOOSE k \in i..Len(v) :
                 /\ \A o \in i..k : v[o] \in Digits
                 /\ (k = Len(v) \/ v[k + 1] \notin Digits)
    IN SumOver(i..j, [o \in i..j |-> DigitVal(v[o]) * 10 ^ (j - o)])

\* C11: is_major_bump of every UPDATES_DEP edge is true exactly when its
\* version and its prev_version both have a number and the first number
\* of version is greater than that of prev_version; it is false when
\* either is empty, and true from ^17.0.2 to ^18.1.0.
C11_MajorBumpIffMajorGreater ==
    \A e \in DOMAIN g.updates_dep :
        LET u == g.updates_dep[e]
        IN /\ u.is_major_bump =
                 (/\ HasNumber(u.version)
                  /\ HasNumber(u.prev_version)
                  /\ MajorOf(u.version) > MajorOf(u.prev_version))
           /\ (u.version = <<>> \/ u.prev_version = <<>>) => ~u.is_major_bump
           /\ (u.prev_version = ReactVersion("c1") /\ u.version = ReactVersion("c3"))
                 => u.is_major_bump

\* the second commit is a major bump from 2 to 12, both behind a prefix
C11_Witness ==
    /\ inp.step = 2
    /\ \E e \in DOMAIN g.updates_dep :
          /\ e[1] = "c3"
          /\ g.updates_dep[e].prev_version = <<"v", "2">>
          /\ g.updates_dep[e].version = <<"v", "1", "2">>
          /\ g.updates_dep[e].is_major_bump


(***************************************************************************)
(* The scorer on arbitrary history windows: up to MaxWindow commits of    *)
(* one author on main, one a day, each with a number of changed files, a   *)
(* churn and an hour of its own, and then the commit to score.             *)
(***************************************************************************)
MaxWindow == 2

CommitShapes == [files : {1, 2, 6}, lines : {0, 100}, hour : {0, 14, 23}]

Windows == UNION {[1..n -> CommitShapes] : n \in 0..MaxWindow}

WindowSha(i) == "w" \o DigitChar(i)

\* the meta of the i-th commit, made on day i at the hour of its shape
ShapeMeta(sha, i, shape) ==
    [sha |-> sha,
     authored_at |-> i * Day + shape.hour * Hour,
     author_name |-> "u1",
     author_email |-> "u1@x.org",
     committed_at |-> i * Day + shape.hour * Hour,
     subject |-> "msg " \o sha]

\* file_changes with shape.files entries and shape.lines added lines in all
ShapeChanges(shape) ==
    [k \in 1..shape.files |->
        [path |-> P(<<>>, "f" \o DigitChar(k), ".txt"), status |-> "M",
         additions |-> IF k = 1 THEN shape.lines ELSE 0, deletions |-> 0,
         old_path |-> NoPath]]

InitAnomaly ==
    /\ InitIngest
    /\ inp \in [step : {0}, window : Windows, now : CommitShapes]
    /\ InitShared

\* lines 1320-1349 for the next commit of the window
WindowCommit ==
    /\ inp.step < Len(inp.window)
    /\ LET i == inp.step + 1
       IN g' = mg_link_commit(mg_upsert_repo_branch(g, "main"), "main",
                              ShapeMeta(WindowSha(i), i, inp.window[i]),
                              ShapeChanges(inp.window[i]))
    /\ inp' = [inp EXCEPT !.step = @ + 1]
    /\ UNCHANGED <<driver, pc, run, idx, fidx, ingested, emitted, runs, failures,
                   runOk, runFailed, runInner, done, lastFailed, owed, snap, prev>>
    /\ UNCHANGED shared

\* lines 1320-1349 and 1459 for the commit after the window
ScoreNow ==
    /\ inp.step = Len(inp.window)
    /\ LET i == inp.step + 1
           G1 == mg_link_commit(mg_upsert_repo_branch(g, "main"), "main",
                                ShapeMeta("now", i, inp.now), ShapeChanges(inp.now))
       IN g' = score_commit_anomaly(G1, "main", "now", K_WINDOW)
    /\ inp' = [inp EXCEPT !.step = @ + 1]
    /\ UNCHANGED <<driver, pc, run, idx, fidx, ingested, emitted, runs, failures,
                   runOk, runFailed, runInner, done, lastFailed, owed, snap, prev>>
    /\ UNCHANGED shared

NextAnomaly == WindowCommit \/ ScoreNow

SpecAnomaly == InitAnomaly /\ [][NextAnomaly]_vars

\* C12: every scored commit has 0 <= anomaly_score <= 10 and anomaly_flags
\* within {files_spike, lines_spike, off_hours}.
C12_ScoreAndFlagsBounded ==
    \A c \in DOMAIN g.commit :
        g.commit[c].scored =>
            /\ 0 <= g.commit[c].anomaly_score
            /\ g.commit[c].anomaly_score <= SCORE_CAP * Hundredths
            /\ Range(g.commit[c].anomaly_flags)
                  \subseteq {"files_spike", "lines_spike", "off_hours"}

\* a commit with z_files = 9 at an unusual hour: its score is the cap
C12_Witness ==
    /\ "now" \in DOMAIN g.commit
    /\ g.commit["now"].scored
    /\ g.commit["now"].z_files = [num |-> 9, den2 |-> 1]
    /\ g.commit["now"].off_hours
    /\ g.commit["now"].anomaly_score = SCORE_CAP * Hundredths
    /\ Range(g.commit["now"].anomaly_flags) = {"files_spike", "off_hours"}


\* the commit after the window has been scored
NowScored ==
    /\ inp.step = Len(inp.window) + 1
    /\ "now" \in DOMAIN g.commit
    /\ g.commit["now"].scored

\* C26: when score_commit_anomaly runs for a commit whose author has zero
\* or one strictly earlier commit on the branch, it stores z_files = 0,
\* z_lines = 0, off_hours = false, anomaly_score = 0 and an empty
\* anomaly_flags list.
C26_ShortHistoryScoresZero ==
    (NowScored /\ Len(inp.window) <= 1) =>
        /\ g.commit["now"].z_files = NoZ
        /\ g.commit["now"].z_lines = NoZ
        /\ ~g.commit["now"].off_hours
        /\ g.commit["now"].anomaly_score = 0
        /\ g.commit["now"].anomaly_flags = <<>>

\* the part of C26 that holds: the z-scores of a history of at most one
\* commit are 0, and with no earlier commit everything is
C26_ShortHistoryHasNoSpike ==
    (NowScored /\ Len(inp.window) <= 1) =>
        /\ g.commit["now"].z_files = NoZ
        /\ g.commit["now"].z_lines = NoZ
        /\ Len(inp.window) = 0 =>
              /\ ~g.commit["now"].off_hours
              /\ g.commit["now"].anomaly_score = 0
              /\ g.commit["now"].anomaly_flags = <<>>

\* the commits of the window made outside the hour of now, plus or minus one
OutsideHours ==
    LET h == inp.now.hour
    IN {i \in 1..Len(inp.window) :
          inp.window[i].hour \notin {(h + 23) % 24, h, (h + 1) % 24}}

\* C27: off_hours is true exactly when, among the prior same-author
\* commits of the window, the fraction whose hour is not in
\* {h-1 mod 24, h, h+1 mod 24} is strictly greater than 0.95; the flag
\* 'off_hours' is present iff off_hours is true, 'files_spike' iff
\* z_files >= 3 and 'lines_spike' iff z_lines >= 3.
C27_OffHoursAndFlags ==
    NowScored =>
        LET now == g.commit["now"]
            n == Len(inp.window)
            atLeast3(z) == z.den2 > 0 /\ z.num > 0 /\ z.num * z.num >= 9 * z.den2
        IN /\ now.off_hours <=> (n > 0 /\ 100 * Cardinality(OutsideHours) > 95 * n)
           /\ ("off_hours" \in Range(now.anomaly_flags)) <=> now.off_hours
           /\ ("files_spike" \in Range(now.anomaly_flags)) <=> atLeast3(now.z_files)
           /\ ("lines_spike" \in Range(now.anomaly_flags)) <=> atLeast3(now.z_lines)

\* two earlier commits at 14h, the scored one at 0h with six times the files
C27_Witness ==
    /\ NowScored
    /\ Len(inp.window) = 2
    /\ inp.now.hour = 0
    /\ \A i \in 1..2 : inp.window[i].hour = 14
    /\ g.commit["now"].off_hours
    /\ Range(g.commit["now"].anomaly_flags) = {"files_spike", "off_hours"}


(***************************************************************************)
(* Ingest runs of the branch s1.                                           *)
(***************************************************************************)
NextScenario ==
    \/ \E s \in {NULL, ""} \cup ScenarioShas, m \in WalkMaxChoices :
          StartRun(ScenarioBranch, s, m)
    \/ LinkCommit
    \/ ProcessFile
    \/ ProcessFileGuardedRaise
    \/ ProcessFileRaise
    \/ StepRaise
    \/ ScoreCommit
    \/ SetCursor
    \/ Finish

SpecScenario == Init /\ [][NextScenario]_vars

\* the first run on an empty graph walked all of s1 and nothing raised
FreshScenarioIngest ==
    /\ pc = "idle"
    /\ runs = 1
    /\ run.branch = ScenarioBranch
    /\ run.todo = <<"A", "B", "C">>
    /\ runFailed = {}
    /\ runInner = {}

\* C13: a fresh ingest of s1 gives 3 Commit nodes and 2 File nodes, a
\* TOUCHED edge from C with status R and old_path src/b.py, files_changed
\* 1, 2, 1 and lines_changed 10, 23, 0 for A, B, C.
C13_RenameScenarioCounts ==
    FreshScenarioIngest =>
        /\ Cardinality(DOMAIN g.commit) = 3
        /\ Cardinality(DOMAIN g.file) = 2
        /\ \E e \in DOMAIN g.touched :
              e[1] = "C" /\ g.touched[e].status = "R" /\ g.touched[e].old_path = SrcB
        /\ <<g.commit["A"].files_changed, g.commit["B"].files_changed,
             g.commit["C"].files_changed>> = <<1, 2, 1>>
        /\ <<g.commit["A"].lines_changed, g.commit["B"].lines_changed,
             g.commit["C"].lines_changed>> = <<10, 23, 0>>

(***************************************************************************)
(* Relative imports.  Commit c1 adds src/a.py, which has                   *)
(* `from .b import foo` and calls foo, and src/b.py, which defines foo.    *)
(***************************************************************************)
\* one run ingested c1 and nothing raised
SinglePassOverC1 ==
    /\ pc = "idle"
    /\ runs = 1
    /\ "c1" \in Range(runOk)
    /\ runFailed = {}
    /\ runInner = {}

\* C14: after a single pass over c1 the graph has an IMPORTS edge
\* src/a.py -> src/b.py with resolved = true, module '.b', member 'foo',
\* and a CALLS edge from run of src/a.py to the Symbol foo of src/b.py.
C14_RelativeImportResolvedInOnePass ==
    SinglePassOverC1 =>
        /\ <<SrcA, SrcB, <<".", "b">> >> \in DOMAIN g.imports_file
        /\ g.imports_file[<<SrcA, SrcB, <<".", "b">> >>].resolved = TRUE
        /\ g.imports_file[<<SrcA, SrcB, <<".", "b">> >>].member = "foo"
        /\ \E e \in DOMAIN g.calls :
              /\ e[1] = SymKey(SrcA, "run", "Function")
              /\ e[2] \in DeclaredNamed(g, SrcB, "foo")

(***************************************************************************)
(* Failures inside the per-commit loop.                                    *)
(***************************************************************************)
\* the commits of the walk whose loop iteration ran, to its end or to the handler
Processed == Range(runOk) \cup runFailed

\* C15: an exception raised while a commit is processed is caught by the
\* handler of the loop: no status 'failed' is emitted, the commits before
\* the current one have all been processed, and a finished run has
\* processed every commit of its walk and emitted 'completed' last.
C15_CommitFailureDoesNotEndRun ==
    /\ \A i \in 1..Len(emitted) : emitted[i].status # "failed"
    /\ pc # "idle" => \A i \in 1..(idx - 1) : run.todo[i] \in Processed
    /\ (pc = "idle" /\ runs > 0)
          => /\ \A i \in 1..Len(run.todo) : run.todo[i] \in Processed
             /\ emitted[Len(emitted)].status = "completed"

\* a finished run in which a commit failed and a later commit was ingested
C15_Witness ==
    /\ pc = "idle"
    /\ emitted # <<>>
    /\ emitted[Len(emitted)].status = "completed"
    /\ \E i, j \in 1..Len(run.todo) :
          i < j /\ run.todo[i] \in runFailed /\ run.todo[j] \in Range(runOk)

(***************************************************************************)
(* Failures before the loop.  run_build_task calls run_branch_ingest in a  *)
(* try whose handlers write the status 'failed'.                           *)
(***************************************************************************)
BootstrapSteps == {"ensure_indexes", "upsert_repo_branch", "get_cursor", "rev_list"}

\* main.py lines 152-158
RunBuildTaskHandler(at) ==
    <<Status("failed", IF at = "rev_list" THEN "Git error" ELSE "Unhandled error")>>

\* the graph writes of lines 1295-1296 that are done when step `at` raises;
\* ensure_indexes itself raises only before its first statement
BootstrapWrites(G, branch, at) ==
    CASE at = "ensure_indexes" -> G
      [] at = "upsert_repo_branch" -> ensure_indexes(G, INDEXES)
      [] OTHER -> mg_upsert_repo_branch(ensure_indexes(G, INDEXES), branch)

\* an exception leaves run_branch_ingest before the loop: run r ends with
\* graph G1 and the statuses passed to update_task_status
AbortRun(r, G1, statuses) ==
    /\ pc = "idle"
    /\ runs < MaxRuns
    /\ failures < MaxFailures
    /\ g' = G1
    /\ run' = r
    /\ snap' = [run |-> r, clean |-> FALSE, g |-> G1]
    /\ emitted' = statuses
    /\ prev' = snap
    /\ runs' = runs + 1
    /\ failures' = failures + 1
    /\ owed' = lastFailed[r.branch]
    /\ ingested' = 0
    /\ idx' = 0
    /\ fidx' = 0
    /\ runOk' = <<>>
    /\ runFailed' = {}
    /\ runInner' = {}
    /\ done' = <<>>
    /\ UNCHANGED <<pc, lastFailed>>

\* a step of lines 1295-1309 raises
BootstrapRaise(branch, start, max_commits, at) ==
    /\ UNCHANGED aside
    /\ at = "get_cursor" => start = NULL
    /\ AbortRun([branch |-> branch, start |-> start, max_commits |-> max_commits,
                 todo |-> <<>>, cursor |-> start, bootstrap |-> at],
                BootstrapWrites(g, branch, at), RunBuildTaskHandler(at))
    /\ driver' = IF at = "ensure_indexes" THEN driver ELSE "open"

\* lines 322-329: the store rejects every CREATE INDEX statement, or cannot
\* be reached while ensure_indexes runs; the run goes on
StartRunIndexErrors(branch, start, max_commits) ==
    /\ UNCHANGED aside
    /\ failures < MaxFailures
    /\ StartRunWith(branch, start, max_commits, {})
    /\ failures' = failures + 1

NextBootstrap ==
    \/ \E s \in {NULL, "", "c1"}, m \in WalkMaxChoices :
          \/ StartRun("dev", s, m)
          \/ StartRunIndexErrors("dev", s, m)
          \/ \E at \in BootstrapSteps : BootstrapRaise("dev", s, m, at)
    \/ LinkCommit
    \/ ProcessFile
    \/ ProcessFileGuardedRaise
    \/ ProcessFileRaise
    \/ StepRaise
    \/ ScoreCommit
    \/ SetCursor
    \/ Finish

SpecBootstrap == Init /\ [][NextBootstrap]_vars

\* C16: a run in which ensure_indexes, upsert_repo_branch, the cursor read
\* or the commit enumeration failed has processed no commit, has left the
\* cursor of the branch as it was, and has emitted 'failed' last.
C16_BootstrapFailureAborts ==
    (pc = "idle" /\ runs > 0 /\ run.bootstrap # "ok")
        => /\ runOk = <<>>
           /\ runFailed = {}
           /\ g.commit = prev.g.commit
           /\ Cursor(g, run.branch) = Cursor(prev.g, run.branch)
           /\ emitted[Len(emitted)].status = "failed"

(***************************************************************************)
(* Two ingests in one process.  trigger_build hands run_build_task to the  *)
(* thread pool of BackgroundTasks, so two ingests interleave at every      *)
(* read and write of memgraph_db._driver.  Each ingest performs MaxOps     *)
(* graph operations, each `driver = get_memgraph_driver()` followed by     *)
(* `with driver.session() as s: s.run(...)`, then close_memgraph_driver(). *)
(***************************************************************************)
MaxOps == 2

\* a session of a closed driver, or of None, raises
Usable(d) == d # NoDriver /\ drivers[d] = "open"

\* main.py lines 180 and 102: run_build_task is scheduled and passes
\* 'in_progress'
BeginIngest(t) ==
    /\ UNCHANGED <<ingest, inp>>
    /\ task[t].pc = "idle"
    /\ task' = [task EXCEPT ![t] = [@ EXCEPT !.pc = "get", !.left = MaxOps,
                                             !.emitted = <<"in_progress">>]]
    /\ UNCHANGED <<_driver, drivers>>

\* memgraph_db line 25: `if _driver is None`
GetDriverCheck(t) ==
    /\ UNCHANGED <<ingest, inp>>
    /\ task[t].pc = "get"
    /\ task' = [task EXCEPT ![t].pc = IF _driver = NoDriver THEN "create" ELSE "return"]
    /\ UNCHANGED <<_driver, drivers>>

\* memgraph_db line 27: `_driver = GraphDatabase.driver(...)`
GetDriverCreate(t) ==
    /\ UNCHANGED <<ingest, inp>>
    /\ task[t].pc = "create"
    /\ drivers' = Append(drivers, "open")
    /\ _driver' = Len(drivers) + 1
    /\ task' = [task EXCEPT ![t].pc = "return"]

\* memgraph_db line 28: `return _driver`
GetDriverReturn(t) ==
    /\ UNCHANGED <<ingest, inp>>
    /\ task[t].pc = "return"
    /\ task' = [task EXCEPT ![t] = [@ EXCEPT !.pc = "run", !.held = _driver]]
    /\ UNCHANGED <<_driver, drivers>>

\* `with driver.session() as s: s.run(...)` on the driver the helper holds;
\* after the last operation of the loop comes line 1472
RunQuery(t) ==
    /\ UNCHANGED <<ingest, inp>>
    /\ task[t].pc = "run"
    /\ task' = [task EXCEPT ![t] =
                   [@ EXCEPT !.failed = @ \/ ~Usable(task[t].held),
                             !.left = @ - 1,
                             !.pc = IF task[t].left = 1 THEN "complete" ELSE "get"]]
    /\ UNCHANGED <<_driver, drivers>>

\* line 1472: the loop is over, 'completed' is passed
EmitCompleted(t) ==
    /\ UNCHANGED <<ingest, inp>>
    /\ task[t].pc = "complete"
    /\ task' = [task EXCEPT ![t] = [@ EXCEPT !.pc = "close",
                                             !.emitted = Append(@, "completed")]]
    /\ UNCHANGED <<_driver, drivers>>

\* memgraph_db line 33: `if _driver is not None`
CloseDriverCheck(t) ==
    /\ UNCHANGED <<ingest, inp>>
    /\ task[t].pc = "close"
    /\ task' = [task EXCEPT ![t].pc = IF _driver = NoDriver THEN "done" ELSE "closing"]
    /\ UNCHANGED <<_driver, drivers>>

\* memgraph_db line 34: `_driver.close()` reads the global again; on None
\* it raises AttributeError, which the handler of run_build_task (main.py
\* lines 156-158) turns into a status 'failed'
CloseDriver(t) ==
    /\ UNCHANGED <<ingest, inp>>
    /\ task[t].pc = "closing"
    /\ IF _driver = NoDriver
       THEN /\ task' = [task EXCEPT ![t] = [@ EXCEPT !.pc = "done",
                                                     !.emitted = Append(@, "failed")]]
            /\ UNCHANGED drivers
       ELSE /\ drivers' = [drivers EXCEPT ![_driver] = "closed"]
            /\ task' = [task EXCEPT ![t].pc = "unset"]
    /\ UNCHANGED _driver

\* memgraph_db line 35: `_driver = None`
UnsetDriver(t) ==
    /\ UNCHANGED <<ingest, inp>>
    /\ task[t].pc = "unset"
    /\ _driver' = NoDriver
    /\ task' = [task EXCEPT ![t].pc = "done"]
    /\ UNCHANGED drivers

NextDriver ==
    \/ \E t \in Tasks : BeginIngest(t)
    \/ \E t \in Tasks : GetDriverCheck(t)
    \/ \E t \in Tasks : GetDriverCreate(t)
    \/ \E t \in Tasks : GetDriverReturn(t)
    \/ \E t \in Tasks : RunQuery(t)
    \/ \E t \in Tasks : EmitCompleted(t)
    \/ \E t \in Tasks : CloseDriverCheck(t)
    \/ \E t \in Tasks : CloseDriver(t)
    \/ \E t \in Tasks : UnsetDriver(t)

SpecDriver == Init /\ [][NextDriver]_vars

\* C17: no graph operation of an ingest fails because the process-global
\* driver was closed by the completion of the other ingest.
C17_DriverUsableWhileInUse ==
    \A t \in Tasks : ~task[t].failed

TerminalStatuses == {"completed", "failed"}

\* C30: for every build task, the sequence of statuses emitted through
\* update_task_status starts with 'in_progress' and contains exactly one
\* terminal status ('completed' or 'failed'), which is the last status
\* emitted: no status of any kind is emitted after the terminal status.
C30_OneTerminalStatusLast ==
    \A t \in Tasks :
        LET e == task[t].emitted
        IN /\ e # <<>> => e[1] = "in_progress"
           /\ \A i \in 1..(Len(e) - 1) : e[i] \notin TerminalStatuses
           /\ task[t].pc = "done" => e[Len(e)] \in TerminalStatuses

\* what holds of every task: the first status is 'in_progress', and a task
\* that is over has passed a terminal status
C30_StartsInProgressEndsTerminal ==
    \A t \in Tasks :
        LET e == task[t].emitted
        IN /\ e # <<>> => e[1] = "in_progress"
           /\ task[t].pc = "done" => e[Len(e)] \in TerminalStatuses

(***************************************************************************)
(* Transient errors of the graph store.                                    *)
(***************************************************************************)
\* C18: the first transport error of a run that hits the cursor write of a
\* commit is absorbed by a retry: it does not make the commit fail.
C18_FirstWriteErrorIsRetried ==
    [][(pc = "cursor" /\ failures = 0 /\ failures' = 1) => runFailed' = runFailed]_vars

(***************************************************************************)
(* The status sink of the offline mode.  update_task_status returns after  *)
(* _offline_write, which is outside its try: an OSError of mkdir or        *)
(* write_text (lines 33-36) reaches the caller.  No request is made.       *)
(***************************************************************************)
\* lines 1310 and 1313: the first status write of run_branch_ingest raises;
\* the handler of run_build_task passes 'failed' to the same sink
StatusRaiseAtStart(branch, start, max_commits) ==
    /\ UNCHANGED aside
    /\ LET G1 == mg_upsert_repo_branch(ensure_indexes(g, INDEXES), branch)
           cursor == StartCursor(G1, branch, start)
           todo == _git_rev_list_since(branch, cursor, max_commits)
       IN AbortRun([branch |-> branch, start |-> start, max_commits |-> max_commits,
                    todo |-> todo, cursor |-> cursor,
                    bootstrap |-> "update_task_status"],
                   G1,
                   <<IF todo = <<>> THEN Status("completed", "No new commits")
                     ELSE Status("in_progress", "Found commits")>>
                   \o RunBuildTaskHandler("update_task_status"))
    /\ driver' = "open"

\* line 1472: the last status write raises, close_memgraph_driver is not
\* reached, and the handler of run_build_task passes 'failed'
StatusRaiseAtFinish ==
    /\ UNCHANGED aside
    /\ pc = "finish"
    /\ failures < MaxFailures
    /\ failures' = failures + 1
    /\ emitted' = Append(emitted, Status("completed", "Ingested commits"))
                     \o RunBuildTaskHandler("update_task_status")
    /\ pc' = "idle"
    /\ lastFailed' = [lastFailed EXCEPT ![run.branch] = runFailed]
    /\ snap' = Snapshot(run, g)
    /\ UNCHANGED <<g, driver, run, idx, fidx, ingested, runs, runOk, runFailed,
                   runInner, owed, prev, done>>

NextOffline ==
    \/ \E s \in {NULL, ""}, m \in WalkMaxChoices :
          \/ StartRun("dev", s, m)
          \/ StatusRaiseAtStart("dev", s, m)
    \/ LinkCommit
    \/ ProcessFile
    \/ ProcessFileGuardedRaise
    \/ ProcessFileRaise
    \/ StepRaise
    \/ ScoreCommit
    \/ SetCursor
    \/ Finish
    \/ StatusRaiseAtFinish

SpecOffline == Init /\ [][NextOffline]_vars

\* C19: a failure of update_task_status does not reach its caller: the
\* handler of run_build_task never runs, so no status 'failed' is passed,
\* and a finished run has processed every commit of its walk.
C19_StatusFailureNeverPropagates ==
    /\ \A i \in 1..Len(emitted) : emitted[i].status # "failed"
    /\ (pc = "idle" /\ runs > 0)
          => \A i \in 1..Len(run.todo) : run.todo[i] \in Processed

(***************************************************************************)
(* Failures inside the per-file loop.                                      *)
(***************************************************************************)
\* C20: an exception raised while a changed file of a commit is processed
\* is confined to that file: the commit does not fail, and the run goes on
\* with the next file of the same commit or with the scoring of the commit.
C20_FileFailureIsConfined ==
    [][(pc = "file" /\ failures' = failures + 1)
          => /\ runFailed' = runFailed
             /\ idx' = idx
             /\ pc' \in {"file", "score"}]_vars

(***************************************************************************)
(* parse_manifest on its own: a manifest name and the document of a blob   *)
(* are chosen, then the parser returns its rows or raises.                 *)
(***************************************************************************)
MaxLines == 2

IsLowerCase(name) == \A i \in 1..Len(name) : name[i] \notin Range(UPPER)

MANIFEST_NAMES == {"requirements.txt", "requirements-dev.txt", "package.json",
                   "pyproject.toml"}

DepNames == {<<"R", "e", "a", "c", "t">>, <<"l", "o", "d", "a", "s", "h">>}

DepEntries ==
    {Entry(n, v, f) : n \in DepNames, v \in {Version(<<"^">>, <<1>>)}, f \in {"string"}}
    \cup {Entry(<<"D", "j", "a", "n", "g", "o">>, Version(<<>>, <<4>>), f) :
             f \in {"table", "bare_table"}}

SectionValues ==
    {Absent, Value("null", <<>>), Value("empty", <<>>), Value("array", <<>>),
     Value("string", <<>>), Value("object", <<>>)}
    \cup {Value("object", <<e>>) : e \in DepEntries}
    \cup {Value("object", <<p[1], p[2]>>) : p \in {q \in DepEntries \X DepEntries : q[1] # q[2]}}

\* documents of a package.json blob
PackageJsonDocs ==
    {[kind |-> k] : k \in {"invalid", "null", "array", "string", "number"}}
    \cup {[kind |-> "object",
           sections |-> [s \in Range(NPM_SECTIONS) |->
                           CASE s = "dependencies" -> d
                             [] s = "devDependencies" -> dd
                             [] OTHER -> Absent]] :
            d \in SectionValues, dd \in {Absent, Value("array", <<>>)} \cup
                                         {Value("object", <<e>>) : e \in DepEntries}}

\* documents of a pyproject.toml blob: the top level of TOML is a table
PyprojectDocs ==
    {[kind |-> "invalid"]}
    \cup {[kind |-> "object", tool |-> t, poetry |-> Absent,
           sections |-> [s \in Range(POETRY_SECTIONS) |-> Absent]] :
            t \in {Absent, Value("empty", <<>>), Value("string", <<>>),
                   Value("array", <<>>), Value("object", <<>>)}}
    \cup {[kind |-> "object", tool |-> Value("object", <<>>), poetry |-> p,
           sections |-> [s \in Range(POETRY_SECTIONS) |-> Absent]] :
            p \in {Value("empty", <<>>), Value("string", <<>>), Value("array", <<>>)}}
    \cup {[kind |-> "object", tool |-> Value("object", <<>>),
           poetry |-> Value("object", <<>>),
           sections |-> [s \in Range(POETRY_SECTIONS) |->
                           IF s = "dependencies" THEN d ELSE Absent]] :
            d \in SectionValues}

ReqLines ==
    {[form |-> "pinned", name |-> <<"F", "l", "a", "s", "k">>, ver |-> Version(<<"=", "=">>, <<2>>)],
     [form |-> "bare", name |-> <<"R", "e", "q">>, ver |-> NoVersion],
     [form |-> "other", name |-> <<>>, ver |-> NoVersion]}

RequirementsDocs ==
    UNION {[1..n -> ReqLines] : n \in 0..MaxLines}

DocsOf(fname) ==
    CASE fname = "package.json" -> PackageJsonDocs
      [] fname = "pyproject.toml" -> PyprojectDocs
      [] OTHER -> RequirementsDocs

InitManifest ==
    /\ InitIngest
    /\ \E fname \in MANIFEST_NAMES : \E doc \in DocsOf(fname) :
          inp = [step |-> 0, fname |-> fname,
                 blob |-> [sha |-> "c1", doc |-> doc],
                 raised |-> FALSE, out |-> <<>>]
    /\ InitShared

ParseManifestReturn ==
    /\ inp.step = 0
    /\ ~parse_manifest_raises(inp.fname, inp.blob)
    /\ inp' = [inp EXCEPT !.step = 1, !.out = parse_manifest(inp.fname, inp.blob)]
    /\ UNCHANGED <<ingest, shared>>

ParseManifestRaise ==
    /\ inp.step = 0
    /\ parse_manifest_raises(inp.fname, inp.blob)
    /\ inp' = [inp EXCEPT !.step = 1, !.raised = TRUE]
    /\ UNCHANGED <<ingest, shared>>

NextManifest == ParseManifestReturn \/ ParseManifestRaise

SpecManifest == InitManifest /\ [][NextManifest]_vars

\* C21: parse_manifest returns a list and never raises for any blob of a
\* recognized manifest file: invalid JSON or TOML, and valid JSON or TOML
\* whose top-level value or dependency section is not an object, give the
\* empty list or the well-formed entries only, and every returned name is
\* lowercase.
C21_ParseManifestNeverRaises ==
    inp.step = 1 =>
        /\ ~inp.raised
        /\ \A i \in 1..Len(inp.out) : IsLowerCase(inp.out[i].name)

\* the part of C21 that holds: what is returned has lowercase names only,
\* and a section that is not an object contributes nothing
C21_ReturnedNamesAreLowercase ==
    (inp.step = 1 /\ ~inp.raised) =>
        \A i \in 1..Len(inp.out) : IsLowerCase(inp.out[i].name)

(***************************************************************************)
(* Contributor -[TOUCHED]-> File after a first, failure-free run.          *)
(***************************************************************************)
AuthorsOf(G, sha) == {a[1] : a \in {e \in G.authored : e[2] = sha}}

ChangedPaths(sha) == {FileChanges(sha)[i].path : i \in 1..Len(FileChanges(sha))}

\* the commits of ok that u authored and that change path
TouchingCommits(G, ok, u, path) ==
    {c \in Range(ok) : u \in AuthorsOf(G, c) /\ path \in ChangedPaths(c)}

\* C22: after a fresh, successful ingest of a commit authored by u, for
\* every file changed by the commit, whatever its status, kind or churn,
\* the Contributor-[TOUCHED]->File edge from u to the file exists and its
\* count was incremented by exactly 1 for this commit.
C22_EveryChangedFileIsTouched ==
    (runs = 1 /\ failures = 0) =>
        \A sha \in Range(runOk) : \A path \in ChangedPaths(sha) :
            \A u \in AuthorsOf(g, sha) :
                /\ <<u, path>> \in DOMAIN g.contrib_touched
                /\ g.contrib_touched[<<u, path>>].count =
                       Cardinality(TouchingCommits(g, runOk, u, path))

(***************************************************************************)
(* Symbols of one file on their own: commit c1 adds src/b.py; the          *)
(* definitions and calls the extractor found in it and the added line      *)
(* ranges are chosen, then the loop body upserts the symbols, the calls    *)
(* inside the file, and the touches.                                       *)
(***************************************************************************)
TouchDefs == {Sym("Function", "get", 1, 2), Sym("Function", "get", 4, 5),
              Sym("Class", "get", 1, 5), Sym("Function", "put", 4, 5)}

TouchSyms == {<<d>> : d \in TouchDefs}
             \cup {<<p[1], p[2]>> : p \in {q \in TouchDefs \X TouchDefs : q[1] # q[2]}}

TouchHunks == {<<>>, << <<1, 1>> >>, << <<2, 4>> >>, << <<1, 1>>, <<4, 5>> >>}

TouchCallRows == {Sym("Call", "get", 3, 3), Sym("Call", "get", 5, 5),
                  Sym("Call", "put", 3, 3)}

TouchCalls == {<<>>} \cup {<<c>> : c \in TouchCallRows}
              \cup {<<p[1], p[2]>> : p \in {q \in TouchCallRows \X TouchCallRows : q[1] # q[2]}}

InitTouch ==
    /\ InitIngest
    /\ inp \in [step : {0}, syms : TouchSyms, calls : TouchCalls, hunks : TouchHunks]
    /\ InitShared

\* lines 1322-1362: the commit and the file are linked
TouchLinkFile ==
    /\ inp.step = 0
    /\ LET meta == _git_commit_meta("c1")
           fcs == FileChanges("c1")
           fc == fcs[CHOOSE i \in 1..Len(fcs) : fcs[i].path = SrcB]
           G1 == mg_link_commit(mg_upsert_repo_branch(g, "main"), "main", meta, fcs)
       IN g' = mg_link_file_touch(G1, "main", "c1", SrcB, fc.status, fc.additions,
                                  fc.deletions, _file_ext(SrcB), _is_code_file(SrcB),
                                  fc.old_path)
    /\ inp' = [inp EXCEPT !.step = 1]
    /\ UNCHANGED <<driver, pc, run, idx, fidx, ingested, emitted, runs, failures,
                   runOk, runFailed, runInner, done, lastFailed, owed, snap, prev>>
    /\ UNCHANGED shared

\* lines 1415-1416
TouchUpsertSymbols ==
    /\ inp.step = 1
    /\ g' = mg_upsert_symbols(g, "main", SrcB, "python", "c1", inp.syms)
    /\ inp' = [inp EXCEPT !.step = 2]
    /\ UNCHANGED <<driver, pc, run, idx, fidx, ingested, emitted, runs, failures,
                   runOk, runFailed, runInner, done, lastFailed, owed, snap, prev>>
    /\ UNCHANGED shared

\* lines 1418-1420
TouchUpsertCalls ==
    /\ inp.step = 2
    /\ inp.calls # <<>>
    /\ g' = mg_upsert_calls(g, SrcB, "python", "c1", inp.calls)
    /\ inp' = [inp EXCEPT !.step = 3]
    /\ UNCHANGED <<driver, pc, run, idx, fidx, ingested, emitted, runs, failures,
                   runOk, runFailed, runInner, done, lastFailed, owed, snap, prev>>
    /\ UNCHANGED shared

\* line 1418 with no call found
TouchNoCalls ==
    /\ inp.step = 2
    /\ inp.calls = <<>>
    /\ inp' = [inp EXCEPT !.step = 3]
    /\ UNCHANGED ingest
    /\ UNCHANGED shared

\* lines 1423-1449 with something to write
TouchWrite ==
    /\ inp.step = 3
    /\ SymbolTouches(inp.syms, inp.hunks, <<>>) # <<>>
    /\ g' = mg_touch_symbol(g, "c1", SrcB, SymbolTouches(inp.syms, inp.hunks, <<>>))
    /\ inp' = [inp EXCEPT !.step = 4]
    /\ UNCHANGED <<driver, pc, run, idx, fidx, ingested, emitted, runs, failures,
                   runOk, runFailed, runInner, done, lastFailed, owed, snap, prev>>
    /\ UNCHANGED shared

\* lines 1423-1449 with no added range or no overlap
TouchNothing ==
    /\ inp.step = 3
    /\ SymbolTouches(inp.syms, inp.hunks, <<>>) = <<>>
    /\ inp' = [inp EXCEPT !.step = 4]
    /\ UNCHANGED ingest
    /\ UNCHANGED shared

NextTouch ==
    \/ TouchLinkFile
    \/ TouchUpsertSymbols
    \/ TouchUpsertCalls
    \/ TouchNoCalls
    \/ TouchWrite
    \/ TouchNothing

SpecTouch == InitTouch /\ [][NextTouch]_vars

\* the overlap of the added ranges with the span the Symbol node has
OwnOverlap(G, k, hunk_ranges) ==
    SumSeq([i \in 1..Len(hunk_ranges) |->
              _ranges_overlap(<<G.symbol[k].start_line, G.symbol[k].end_line>>,
                              hunk_ranges[i])])

\* C23: after the first ingestion of commit sha, for every Symbol s
\* declared in a changed file F, lines_changed of the TOUCHED_SYMBOL edge
\* sha->s is the sum, over the added line ranges of F in sha, of the
\* overlap of the range with s's own [start_line, end_line]; there is no
\* edge when the sum is 0; this holds when F declares several definitions
\* with the same name.
C23_LinesChangedIsOwnOverlap ==
    inp.step = 4 =>
        \A k \in DeclaredBy(g, SrcB) :
            IF OwnOverlap(g, k, inp.hunks) = 0
            THEN <<"c1", k>> \notin DOMAIN g.touched_symbol
            ELSE /\ <<"c1", k>> \in DOMAIN g.touched_symbol
                 /\ g.touched_symbol[<<"c1", k>>] = OwnOverlap(g, k, inp.hunks)

\* the part of C23 that holds: with names that differ, or one definition
C23_DistinctNamesAreExact ==
    (inp.step = 4 /\ \A i, j \in 1..Len(inp.syms) :
                        inp.syms[i].name = inp.syms[j].name => i = j) =>
        \A k \in DeclaredBy(g, SrcB) :
            IF OwnOverlap(g, k, inp.hunks) = 0
            THEN <<"c1", k>> \notin DOMAIN g.touched_symbol
            ELSE /\ <<"c1", k>> \in DOMAIN g.touched_symbol
                 /\ g.touched_symbol[<<"c1", k>>] = OwnOverlap(g, k, inp.hunks)

\* the CALLS edges as (caller, callee, at_line)
CallEdges(G) == {<<e[1], e[2], G.calls[e]>> : e \in DOMAIN G.calls}

\* C25: CALLS edges form a multi-set keyed by (caller, callee, at_line):
\* two calls from the same caller symbol to the same callee symbol at
\* different lines are stored as two distinct CALLS edges, each keeping
\* its own at_line.
C25_OneCallsEdgePerLine ==
    inp.step >= 3 =>
        \A i \in 1..Len(inp.calls) :
            \A caller \in DeclaredBy(g, SrcB) :
                \A callee \in DeclaredNamed(g, SrcB, inp.calls[i].name) :
                    <<caller, callee, inp.calls[i].start_line>> \in CallEdges(g)

\* what the store holds instead: one CALLS edge per (caller, callee), with
\* the line of the last call of that name
C25_LastCallLineIsKept ==
    inp.step >= 3 =>
        \A i \in 1..Len(inp.calls) :
            \A caller \in DeclaredBy(g, SrcB) :
                \A callee \in DeclaredNamed(g, SrcB, inp.calls[i].name) :
                    (\A j \in (i + 1)..Len(inp.calls) : inp.calls[j].name # inp.calls[i].name)
                        => <<caller, callee, inp.calls[i].start_line>> \in CallEdges(g)

(***************************************************************************)
(* One import on its own: a python file F, changed by commit sha, with one *)
(* extracted import; the loop body resolves it and writes the edge.        *)
(***************************************************************************)
RootM == P(<<>>, "m", ".py")

ImportFiles == {RootM, SrcA, SrcPkgB}
ImportModules == {<<".">>, <<".", ".">>, <<".", "b">>, <<".", ".", "b">>,
                  <<"b">>, <<"numpy">>}
ImportShas == {"c1", "c2", "C"}

InitImports ==
    /\ InitIngest
    /\ inp \in [step : {0}, file : ImportFiles, module : ImportModules,
                 sha : ImportShas, before : {{}}, raised : {FALSE}]
    /\ InitShared

ImportOf(module) == <<[module |-> module, member |-> "x", alias |-> ""]>>

\* lines 1322-1362
ImportLinkFile ==
    /\ inp.step = 0
    /\ LET meta == _git_commit_meta(inp.sha)
           G1 == mg_link_commit(mg_upsert_repo_branch(g, "main"), "main", meta,
                                FileChanges(inp.sha))
           G2 == mg_link_file_touch(G1, "main", inp.sha, inp.file, "M", 1, 0,
                                    _file_ext(inp.file), _is_code_file(inp.file), NoPath)
       IN /\ g' = G2
          /\ inp' = [inp EXCEPT !.step = 1, !.before = DOMAIN G2.file]
    /\ UNCHANGED <<driver, pc, run, idx, fidx, ingested, emitted, runs, failures,
                   runOk, runFailed, runInner, done, lastFailed, owed, snap, prev>>
    /\ UNCHANGED shared

\* lines 1390-1397
ImportUpsert ==
    /\ inp.step = 1
    /\ ~_resolve_local_module_path_raises(inp.file, inp.module, "python")
    /\ g' = mg_upsert_imports(g, "main", inp.file, "python", ImportOf(inp.module),
                              LocalPaths(inp.sha, inp.file, "python", ImportOf(inp.module)))
    /\ inp' = [inp EXCEPT !.step = 2]
    /\ UNCHANGED <<driver, pc, run, idx, fidx, ingested, emitted, runs, failures,
                   runOk, runFailed, runInner, done, lastFailed, owed, snap, prev>>
    /\ UNCHANGED shared

\* line 1395: the resolver raises, nothing is written for the import
ImportResolveRaise ==
    /\ inp.step = 1
    /\ _resolve_local_module_path_raises(inp.file, inp.module, "python")
    /\ inp' = [inp EXCEPT !.step = 2, !.raised = TRUE]
    /\ UNCHANGED ingest
    /\ UNCHANGED shared

NextImports == ImportLinkFile \/ ImportUpsert \/ ImportResolveRaise

SpecImports == InitImports /\ [][NextImports]_vars

\* positions of the enumerated candidates that exist in the tree of sha
ExistingCandidates(file, module, sha) ==
    IF ~_is_local_import("python", module) THEN {}
    ELSE {i \in 1..Len(Candidates(file, module)) :
             Candidates(file, module)[i] \in TreeFiles(sha)}

MinOf(S) == CHOOSE x \in S : \A y \in S : x <= y

ImportEdgeAsSpecified ==
    LET hit == ExistingCandidates(inp.file, inp.module, inp.sha)
    IN IF hit # {}
       THEN LET e == <<inp.file, Candidates(inp.file, inp.module)[MinOf(hit)], inp.module>>
            IN /\ e \in DOMAIN g.imports_file
               /\ g.imports_file[e].resolved
               /\ ~\E o \in DOMAIN g.imports_module : o[1] = inp.file
       ELSE LET e == <<inp.file, <<inp.module, "python">> >>
            IN /\ e \in DOMAIN g.imports_module
               /\ ~g.imports_module[e].resolved
               /\ DOMAIN g.file = inp.before

\* C24: for each extracted import of file F at commit sha: when some
\* enumerated candidate path exists in the commit's tree, the first such
\* candidate is the target and an IMPORTS edge F->File(candidate) with
\* resolved = true is written; otherwise (non-local spec, or no candidate
\* exists) an IMPORTS edge F->Module(spec, lang) with resolved = false is
\* written and no File node is created for the import.
C24_ImportEdgeFollowsCandidates == inp.step = 2 => ImportEdgeAsSpecified

\* the part of C24 that holds: whenever the resolver returns
C24_EdgeWhenResolverReturns == (inp.step = 2 /\ ~inp.raised) => ImportEdgeAsSpecified

(***************************************************************************)
(* Where a walk starts.                                                    *)
(***************************************************************************)
\* the commits of the branch that come after sha, oldest first; all of
\* them when there is no sha
PendingAfter(branch, sha) ==
    IF sha \in {NULL, ""} THEN History(branch)
    ELSE SelectSeq2(History(branch), Range(History(branch)) \ Reach(sha))

StoredCursor(G, branch) ==
    IF branch \in DOMAIN G.branch THEN G.branch[branch].last_sha ELSE NULL

\* C28: run_branch_ingest starts the walk from the explicit startSha when
\* one is supplied, otherwise from the stored Branch.last_sha when the
\* branch has one, otherwise from no cursor (all commits reachable on the
\* branch); a stored cursor is never consulted when an explicit override
\* is supplied.
C28_WalkStartsAtOverrideElseCursor ==
    [][runs' = runs + 1 =>
         LET b == run'.branch
             from == IF run'.start # NULL THEN run'.start ELSE StoredCursor(g, b)
         IN /\ Range(run'.todo) \subseteq Range(PendingAfter(b, from))
            /\ run'.max_commits = 0 => run'.todo = PendingAfter(b, from)]_vars

\* a second run on main with startSha c1 while the stored cursor is c3
C28_Witness ==
    /\ runs = 2
    /\ pc = "commit"
    /\ idx = 1
    /\ run.branch = "main"
    /\ run.start = "c1"
    /\ run.todo = <<"c2", "c3">>
    /\ StoredCursor(g, "main") = "c3"

(***************************************************************************)
(* Walks limited by max_commits.                                           *)
(***************************************************************************)
\* C29: with max_commits = N > 0 and more than N commits pending after the
\* cursor, a run ingests the N oldest pending commits, so that repeated
\* runs without startSha eventually ingest every commit reachable on the
\* branch and no commit between the old cursor and the branch head is
\* permanently skipped.
C29_LimitedWalkTakesOldest ==
    [][runs' = runs + 1 =>
         LET pending == PendingAfter(run'.branch, run'.cursor)
             N == run'.max_commits
         IN (N > 0 /\ Len(pending) > N) => run'.todo = SubSeq(pending, 1, N)]_vars

\* the consequence C29 draws: once a run without startSha finds nothing
\* pending and no commit has failed, the whole branch is in the graph
C29_NothingPendingMeansAllIngested ==
    (pc = "idle" /\ runs > 0 /\ run.start = NULL /\ run.todo = <<>>
        /\ failures = 0
        /\ (prev.run.branch = run.branch => prev.run.start = NULL))
    => \A c \in Range(History(run.branch)) : <<run.branch, c>> \in g.has_commit

====
